---- MODULE Spec2Model ----
(***************************************************************************)
(* Model of the station standardization and merge scripts of the          *)
(* medical_lock_hospitals repository:                                      *)
(*   src/python_tools/update_standardizations.py  (backup, Rangoon pass,   *)
(*       set_coords, coordinate pass, commit)                              *)
(*   src/create_database.py                       (schema: stations.name   *)
(*       is UNIQUE, station ids are AUTOINCREMENT)                         *)
(* Text values are sequences of one-character strings, so that LOWER, LIKE *)
(* and the equality tests of the SQL statements are computed, not assumed. *)
(***************************************************************************)
EXTENDS Integers, Sequences, FiniteSets, TLC

(***************************************************************************)
(* Bounds of the model.                                                    *)
(***************************************************************************)
MaxStations == 3
MaxReports == 2
MaxFactRows == 1
MaxRuns == 2
MaxOpsRows == 2
MaxWords == 2
MaxSheetRows == 2
MaxBlocks == 3

(***************************************************************************)
(* Text literals of the scripts and of the data.                           *)
(***************************************************************************)
RANGOON == <<"R", "a", "n", "g", "o", "o", "n">>
INDIA_BB == <<"I", "n", "d", "i", "a", " ", "(", "B", "r", "i", "t", "i", "s", "h", " ", "B", "u", "r", "m", "a", ")">>
INDIA_BB_G143 == <<"I", "n", "d", "i", "a", " ", "(", "B", "r", "i", "t", "i", "s", "h", " ", "B", "u", "r", "m", "a", ")", "+", "G", "1", "4", "3">>
INDIA_BB_SP == <<"I", "n", "d", "i", "a", " ", "(", "B", "r", "i", "t", "i", "s", "h", " ", "B", "u", "r", "m", "a", ")", " ">>
SEETABULDEE == <<"S", "e", "e", "t", "a", "b", "u", "l", "d", "e", "e">>
SITABALDI == <<"S", "i", "t", "a", "b", "a", "l", "d", "i">>
SITABALDI_NAGPUR == <<"S", "i", "t", "a", "b", "a", "l", "d", "i", " ", "(", "N", "a", "g", "p", "u", "r", ")">>
TONGHOO == <<"T", "o", "n", "g", "h", "o", "o">>

india_british_burma == <<"i", "n", "d", "i", "a", " ", "(", "b", "r", "i", "t", "i", "s", "h", " ", "b", "u", "r", "m", "a", ")">>
seetabuldee == <<"s", "e", "e", "t", "a", "b", "u", "l", "d", "e", "e">>
sitabaldi == <<"s", "i", "t", "a", "b", "a", "l", "d", "i">>
tonghoo == <<"t", "o", "n", "g", "h", "o", "o">>
jubbulpore == <<"j", "u", "b", "b", "u", "l", "p", "o", "r", "e">>
muttra == <<"m", "u", "t", "t", "r", "a">>
umballa == <<"u", "m", "b", "a", "l", "l", "a">>
meean_meer == <<"m", "e", "e", "a", "n", " ", "m", "e", "e", "r">>
fyzabad == <<"f", "y", "z", "a", "b", "a", "d">>
mooltan == <<"m", "o", "o", "l", "t", "a", "n">>

\* A column that holds no value (SQL NULL, Python None): no text equals it.
NULL == <<"NULL">>

(***************************************************************************)
(* SQLite text functions.                                                  *)
(***************************************************************************)
UpperLetters == <<"A", "B", "C", "D", "E", "F", "G", "H", "I", "J", "K", "L", "M", "N", "O", "P", "Q", "R", "S", "T", "U", "V", "W", "X", "Y", "Z">>
LowerLetters == <<"a", "b", "c", "d", "e", "f", "g", "h", "i", "j", "k", "l", "m", "n", "o", "p", "q", "r", "s", "t", "u", "v", "w", "x", "y", "z">>

LowerChar(c) ==
    IF \E i \in DOMAIN UpperLetters : UpperLetters[i] = c
    THEN LowerLetters[CHOOSE i \in DOMAIN UpperLetters : UpperLetters[i] = c]
    ELSE c

\* LOWER(x): every ASCII upper-case letter replaced by its lower-case letter.
LOWER(s) == [i \in DOMAIN s |-> LowerChar(s[i])]

\* x LIKE 'prefix%': the first Len(prefix) characters of x equal prefix,
\* compared without regard to ASCII case (SQLite's default LIKE).
LIKE(s, prefix) ==
    /\ Len(s) >= Len(prefix)
    /\ LOWER(SubSeq(s, 1, Len(prefix))) = LOWER(prefix)

(***************************************************************************)
(* The database.  A database value is a record                             *)
(*   stations        : station_id -> [name, latitude, longitude]           *)
(*   station_reports : report_id  -> [doc_id, station_id]                  *)
(*   tables          : the fact tables that exist                          *)
(*   facts           : fact table -> sequence of rows [station]            *)
(***************************************************************************)
rangoon_targets == <<"hospital_operations", "women_admission", "women_data", "troops", "troop_data">>

FactTables == {rangoon_targets[i] : i \in DOMAIN rangoon_targets}

\* The fact tables that create_database creates.
CreatedTables == {"hospital_operations", "women_data", "troop_data"}

\* All enumerations of a finite set as a sequence: the order in which a
\* SELECT without ORDER BY returns its rows is not fixed by the statement.
Orderings(S) ==
    {f \in [1..Cardinality(S) -> S] : \A i, j \in 1..Cardinality(S) : f[i] = f[j] => i = j}

\* SELECT station_id FROM stations WHERE name = ?  (fetchone: no row, or one id)
SelectIdByName(db, name) ==
    LET ids == {i \in DOMAIN db.stations : db.stations[i].name = name}
    IN  IF ids = {} THEN {<<>>} ELSE {<<i>> : i \in ids}

\* stations.name is declared UNIQUE NOT NULL: a rename to a name that another
\* row holds raises IntegrityError.
UniqueViolation(db, id, name) ==
    \E j \in DOMAIN db.stations : j # id /\ db.stations[j].name = name

\* UPDATE stations SET name = ? WHERE station_id = ?
RenameStation(db, id, name) ==
    [db EXCEPT !.stations = [j \in DOMAIN db.stations |->
        IF j = id THEN [db.stations[j] EXCEPT !.name = name] ELSE db.stations[j]]]

RepointReports_keep(db, to, from) == db

\* UPDATE station_reports SET station_id = ? WHERE station_id = ?
RepointReports(db, to, from) ==
    [db EXCEPT !.station_reports = [r \in DOMAIN db.station_reports |->
        IF db.station_reports[r].station_id = from
        THEN [db.station_reports[r] EXCEPT !.station_id = to]
        ELSE db.station_reports[r]]]

DeleteStation_skip(db, id) == db

\* DELETE FROM stations WHERE station_id = ?
DeleteStation(db, id) ==
    [db EXCEPT !.stations = [j \in DOMAIN db.stations \ {id} |-> db.stations[j]]]

\* The WHERE clauses of the scripts, on the name or station column:
\*   <column> = '<text>',  LOWER(<column>) = '<text>',  LOWER(<column>) LIKE '<text>%'
Equals(text) == [test |-> "=", text |-> text]
LowerEquals(text) == [test |-> "LOWER =", text |-> text]
LowerLike(text) == [test |-> "LOWER LIKE", text |-> text]

\* Whether a row whose column holds `value` satisfies the WHERE clause.
Matches(where, value) ==
    CASE where.test = "=" -> value = where.text
      [] where.test = "LOWER =" -> LOWER(value) = where.text
      [] where.test = "LOWER LIKE" -> LIKE(LOWER(value), where.text)

SetLatLon_everywhere(db, where, lat, lon) ==
    [db EXCEPT !.stations = [j \in DOMAIN db.stations |->
        [db.stations[j] EXCEPT !.latitude = lat, !.longitude = lon]]]

SetLatLon_skip(db, where, lat, lon) == db

\* UPDATE stations SET latitude = ?, longitude = ? WHERE <where>
SetLatLon(db, where, lat, lon) ==
    [db EXCEPT !.stations = [j \in DOMAIN db.stations |->
        IF Matches(where, db.stations[j].name)
        THEN [db.stations[j] EXCEPT !.latitude = lat, !.longitude = lon]
        ELSE db.stations[j]]]

StationRowcount(db, where) ==
    Cardinality({j \in DOMAIN db.stations : Matches(where, db.stations[j].name)})

\* cur.rowcount of an UPDATE of a fact table: the rows its WHERE matches.
FactRowcount(db, table, where) ==
    Cardinality({k \in DOMAIN db.facts[table] : Matches(where, db.facts[table][k].station)})

\* update_station_name: UPDATE <table> SET station = ? WHERE <where>
update_station_name(db, table, where, value) ==
    [db EXCEPT !.facts[table] = [k \in DOMAIN db.facts[table] |->
        IF Matches(where, db.facts[table][k].station)
        THEN [db.facts[table][k] EXCEPT !.station = value]
        ELSE db.facts[table][k]]]

(***************************************************************************)
(* Parameters of the passes of update_standardizations.                    *)
(***************************************************************************)
\* The WHERE clauses of the three UPDATEs of the Rangoon fact-table loop.
RangoonExact == LowerEquals(india_british_burma)
RangoonG143 == Equals(INDIA_BB_G143)
RangoonPrefix == LowerLike(india_british_burma)

\* The arguments of the one call of set_coords.
name_like_conditions == <<seetabuldee, sitabaldi>>
new_name == SITABALDI_NAGPUR
new_lat == <<"2", "1", ".", "1", "4", "3", "0">>
new_lon == <<"7", "9", ".", "0", "8", "7", "1">>

\* The coordinate rules of step 4.
coords == <<
    [prefix |-> tonghoo, lat |-> <<"1", "8", ".", "9", "3", "9", "8">>, lon |-> <<"9", "6", ".", "4", "3", "4", "4">>],
    [prefix |-> jubbulpore, lat |-> <<"2", "3", ".", "1", "6", "8", "6">>, lon |-> <<"7", "9", ".", "9", "3", "3", "9">>],
    [prefix |-> muttra, lat |-> <<"2", "7", ".", "4", "9", "2", "4">>, lon |-> <<"7", "7", ".", "6", "7", "3", "7">>],
    [prefix |-> umballa, lat |-> <<"3", "0", ".", "3", "7", "5", "2">>, lon |-> <<"7", "6", ".", "7", "8", "2", "1">>],
    [prefix |-> meean_meer, lat |-> <<"3", "1", ".", "5", "4", "8", "4">>, lon |-> <<"7", "4", ".", "3", "6", "0", "2">>],
    [prefix |-> fyzabad, lat |-> <<"2", "6", ".", "7", "7", "3", "0">>, lon |-> <<"8", "2", ".", "1", "4", "5", "8">>],
    [prefix |-> mooltan, lat |-> <<"3", "0", ".", "1", "9", "7", "9", "7", "9", "3">>, lon |-> <<"7", "1", ".", "4", "7", "2", "4", "9", "7", "8">>] >>

\* A line printed by the script: what it reports, and the numbers in it.
Line(kind, table, cond, n, id, into) ==
    [kind |-> kind, table |-> table, cond |-> cond, n |-> n, id |-> id, into |-> into]

(***************************************************************************)
(* The state.                                                              *)
(***************************************************************************)
VARIABLES
    dbfile,        \* the database file: what a new connection would read
    txn,           \* the open connection's view: dbfile plus uncommitted writes
    backups,       \* the files under BACKUP_DIR, oldest first
    backup_dir,    \* whether BACKUP_DIR exists
    pc,            \* the statement the run is at
    run,           \* how many times the script has been started
    rangoon_id,    \* <<>> for None, else <<station_id>>
    dups,          \* the rows of `dups` not yet visited
    merged,        \* the counter `merged`
    canonical_id,  \* <<>> for None, else <<station_id>>
    cond,          \* index into name_like_conditions
    matches,       \* the rows of `matches` not yet visited
    out,           \* the lines printed by the current run
    all_data,      \* standardize_data: the rows fetched from hospital_operations
    column_names,  \* standardize_data: the column names of the table as read
    keep_indices,  \* standardize_data: where each kept column is in a fetched row
    row,           \* standardize_data: the index in all_data of the next row
    raw,           \* normalisers: the raw value handed to the function
    normalizer,    \* normalisers: the function applied, "" before the call
    results,       \* normalisers: what it returned, then what it returned for that
    files,         \* cleanup: the files of the working directory, name to content
    content        \* cleanup: main's content, <<>> before app.R is read

vars == <<dbfile, txn, backups, backup_dir, pc, run, rangoon_id, dups, merged,
          canonical_id, cond, matches, out,
          all_data, column_names, keep_indices, row, raw, normalizer, results,
          files, content>>

locals == <<rangoon_id, dups, merged, canonical_id, cond, matches>>

main_locals == <<all_data, column_names, keep_indices, row>>

call == <<raw, normalizer, results>>

cleanup == <<files, content>>

(***************************************************************************)
(* Initial databases.                                                      *)
(***************************************************************************)
StationCatalogue == <<RANGOON, INDIA_BB, INDIA_BB_G143, SEETABULDEE, SITABALDI, SITABALDI_NAGPUR, TONGHOO>>

FactCatalogue == <<INDIA_BB, INDIA_BB_G143, INDIA_BB_SP, SEETABULDEE, SITABALDI, TONGHOO>>

Increasing(S) == CHOOSE f \in Orderings(S) : \A i, j \in DOMAIN f : i < j => f[i] < f[j]

NonDecreasing(n, m) ==
    {s \in [1..n -> 1..m] : \A i, j \in 1..n : i < j => s[i] <= s[j]}

\* The stations table after ingestion: distinct names (name is UNIQUE), ids
\* handed out from 1 (AUTOINCREMENT), no coordinates yet.
StationTables(maxRows) ==
    {LET f == Increasing(I)
     IN  [k \in 1..Cardinality(I) |->
            [name |-> StationCatalogue[f[k]], region |-> <<>>, country |-> <<>>,
             latitude |-> NULL, longitude |-> NULL, notes |-> NULL]]
     : I \in {J \in SUBSET DOMAIN StationCatalogue : Cardinality(J) <= maxRows}}

DocOf(r) == IF r % 2 = 1 THEN "D1" ELSE "D2"

\* station_reports: the foreign key is declared but SQLite does not enforce
\* it unless asked to, so a row may hold an id that no station has (an id
\* above the number of stations rows).
ReportTables ==
    UNION {{[r \in 1..n |-> [doc_id |-> DocOf(r), station_id |-> s[r]]]
            : s \in NonDecreasing(n, MaxStations)} : n \in 0..MaxReports}

FactKind(k) ==
    [table |-> rangoon_targets[((k - 1) \div Len(FactCatalogue)) + 1],
     station |-> FactCatalogue[((k - 1) % Len(FactCatalogue)) + 1]]

FactContents ==
    UNION {{[t \in FactTables |->
                LET InTable(x) == x.table = t
                    mine == SelectSeq([i \in 1..n |-> FactKind(s[i])], InTable)
                IN  [i \in DOMAIN mine |-> [station |-> mine[i].station]]]
            : s \in NonDecreasing(n, Len(rangoon_targets) * Len(FactCatalogue))}
           : n \in 0..MaxFactRows}

EmptyFacts == [t \in FactTables |-> <<>>]

Database(st, rp, tb, f) ==
    [stations |-> st, station_reports |-> rp, tables |-> tb, facts |-> f]

InitialDatabases ==
    \* many stations and reports, no fact rows
    {Database(st, rp, FactTables, EmptyFacts) : st \in StationTables(MaxStations), rp \in ReportTables}
    \cup
    \* fact rows, at most one station
    {Database(st, <<>>, FactTables, f) : st \in StationTables(1), f \in FactContents}
    \cup
    \* only the tables of create_database exist
    {Database(<<>>, <<>>, CreatedTables, f)
        : f \in {g \in FactContents : \A t \in FactTables \ CreatedTables : g[t] = <<>>}}

Init ==
    /\ dbfile \in InitialDatabases
    /\ txn = dbfile
    /\ backups = <<>>
    /\ backup_dir = FALSE
    /\ pc = "start"
    /\ run = 1
    /\ rangoon_id = <<>>
    /\ dups = <<>>
    /\ merged = 0
    /\ canonical_id = <<>>
    /\ cond = 1
    /\ matches = <<>>
    /\ out = <<>>
    /\ all_data = <<>>
    /\ column_names = <<>>
    /\ keep_indices = <<>>
    /\ row = 1
    /\ raw = NULL
    /\ normalizer = ""
    /\ results = <<>>
    /\ files = <<>>
    /\ content = <<>>

(***************************************************************************)
(* Transactions.  The connection is opened with the sqlite3 defaults, so   *)
(* the first UPDATE opens a transaction that only conn.commit() ends.      *)
(***************************************************************************)
Persisted_autocommit(file, view) == view

\* What the file holds once the process has ended without conn.commit():
\* the uncommitted writes of the connection are rolled back.
Persisted(file, view) == file

AfterCopyFailure_ignored == "rangoon_facts"

\* shutil.copy2 raising is not caught: the script ends there.
AfterCopyFailure == "failed"

NoLocals ==
    /\ rangoon_id' = <<>>
    /\ dups' = <<>>
    /\ merged' = 0
    /\ canonical_id' = <<>>
    /\ cond' = 1
    /\ matches' = <<>>

\* An uncaught exception: the process ends, the transaction is not committed.
Raise(view) ==
    /\ pc' = "failed"
    /\ dbfile' = Persisted(dbfile, view)
    /\ txn' = dbfile'
    /\ NoLocals

(***************************************************************************)
(* 1) Backup.                                                              *)
(***************************************************************************)
Backup ==
    /\ pc = "start"
    /\ UNCHANGED cleanup
    /\ UNCHANGED call
    /\ UNCHANGED main_locals
    /\ backup_dir' = TRUE
    /\ \/ /\ backups' = Append(backups, dbfile)
          /\ pc' = "rangoon_facts"
       \/ /\ backups' = backups
          /\ pc' = AfterCopyFailure
    /\ UNCHANGED <<dbfile, txn, run, locals, out>>

(***************************************************************************)
(* 2) 'India (British Burma)' variants to 'Rangoon'.                       *)
(***************************************************************************)
RangoonTable_counted_only(db, table) ==
    [db |-> db,
     n |-> FactRowcount(db, table, RangoonExact) + FactRowcount(db, table, RangoonG143)
           + FactRowcount(db, table, RangoonPrefix)]

\* One iteration of the fact-table loop: rc1, rc2, rc3 and the table after.
RangoonTable(db, table) ==
    LET d1 == update_station_name(db, table, RangoonExact, RANGOON)
        d2 == update_station_name(d1, table, RangoonG143, RANGOON)
        d3 == update_station_name(d2, table, RangoonPrefix, RANGOON)
        rc1 == FactRowcount(db, table, RangoonExact)
        rc2 == FactRowcount(d1, table, RangoonG143)
        rc3 == FactRowcount(d2, table, RangoonPrefix)
    IN  [db |-> d3, n |-> rc1 + rc2 + rc3]

RECURSIVE RangoonFactLoop(_, _, _)
\* The loop from its i-th table on; ok is FALSE when a table does not exist
\* (sqlite3.OperationalError: no such table).
RangoonFactLoop(db, i, lines) ==
    IF i > Len(rangoon_targets) THEN [db |-> db, out |-> lines, ok |-> TRUE]
    ELSE IF rangoon_targets[i] \notin db.tables THEN [db |-> db, out |-> lines, ok |-> FALSE]
    ELSE LET r == RangoonTable(db, rangoon_targets[i])
         IN  RangoonFactLoop(r.db, i + 1,
                Append(lines, Line("rangoon", rangoon_targets[i], <<>>, r.n, 0, 0)))

RangoonFacts ==
    /\ pc = "rangoon_facts"
    /\ UNCHANGED cleanup
    /\ UNCHANGED call
    /\ UNCHANGED main_locals
    /\ LET r == RangoonFactLoop(txn, 1, out)
       IN  /\ out' = r.out
           /\ IF r.ok
              THEN /\ txn' = r.db
                   /\ pc' = "rangoon_select"
                   /\ UNCHANGED <<dbfile, locals>>
              ELSE Raise(r.db)
    /\ UNCHANGED <<backups, backup_dir, run>>

RangoonSelect ==
    /\ pc = "rangoon_select"
    /\ UNCHANGED cleanup
    /\ UNCHANGED call
    /\ UNCHANGED main_locals
    /\ rangoon_id' \in SelectIdByName(txn, RANGOON)
    /\ dups' \in Orderings({i \in DOMAIN txn.stations : Matches(RangoonPrefix, txn.stations[i].name)})
    /\ merged' = 0
    /\ pc' = "rangoon_loop"
    /\ UNCHANGED <<dbfile, txn, backups, backup_dir, run, canonical_id, cond, matches, out>>

RangoonRepoint ==
    /\ pc = "rangoon_loop"
    /\ UNCHANGED cleanup
    /\ UNCHANGED call
    /\ UNCHANGED main_locals
    /\ dups # <<>>
    /\ rangoon_id # <<>>
    /\ txn' = RepointReports(txn, rangoon_id[1], Head(dups))
    /\ pc' = "rangoon_delete"
    /\ UNCHANGED <<dbfile, backups, backup_dir, run, locals, out>>

RangoonDelete ==
    /\ pc = "rangoon_delete"
    /\ UNCHANGED cleanup
    /\ UNCHANGED call
    /\ UNCHANGED main_locals
    /\ txn' = DeleteStation(txn, Head(dups))
    /\ merged' = merged + 1
    /\ out' = Append(out, Line("merged", "stations", <<>>, 0, Head(dups), rangoon_id[1]))
    /\ dups' = Tail(dups)
    /\ pc' = "rangoon_loop"
    /\ UNCHANGED <<dbfile, backups, backup_dir, run, rangoon_id, canonical_id, cond, matches>>

RangoonRename ==
    /\ pc = "rangoon_loop"
    /\ UNCHANGED cleanup
    /\ UNCHANGED call
    /\ UNCHANGED main_locals
    /\ dups # <<>>
    /\ rangoon_id = <<>>
    /\ IF UniqueViolation(txn, Head(dups), RANGOON)
       THEN /\ Raise(txn)
            /\ out' = out
       ELSE /\ txn' = RenameStation(txn, Head(dups), RANGOON)
            /\ out' = Append(out, Line("renamed", "stations", <<>>, 0, Head(dups), 0))
            /\ merged' = merged + 1
            /\ dups' = Tail(dups)
            /\ pc' = "rangoon_loop"
            /\ UNCHANGED <<dbfile, rangoon_id, canonical_id, cond, matches>>
    /\ UNCHANGED <<backups, backup_dir, run>>

RangoonEnd ==
    /\ pc = "rangoon_loop"
    /\ UNCHANGED cleanup
    /\ UNCHANGED call
    /\ UNCHANGED main_locals
    /\ dups = <<>>
    /\ out' = Append(out, Line("merge_ops", "stations", <<>>, merged, 0, 0))
    /\ pc' = "set_coords"
    /\ UNCHANGED <<dbfile, txn, backups, backup_dir, run, locals>>

(***************************************************************************)
(* 3) set_coords(name_like_conditions, new_name, lat, lon).                *)
(***************************************************************************)
\* cond, and cond.replace('name', col): LOWER(<column>) LIKE '<prefix>%'
CondMatches(prefix, value) == Matches(LowerLike(prefix), value)

SetCoordsLookup ==
    /\ pc = "set_coords"
    /\ UNCHANGED cleanup
    /\ UNCHANGED call
    /\ UNCHANGED main_locals
    /\ canonical_id' \in SelectIdByName(txn, new_name)
    /\ cond' = 1
    /\ pc' = "sc_select"
    /\ UNCHANGED <<dbfile, txn, backups, backup_dir, run, rangoon_id, dups, merged, matches, out>>

VariantIds_all(db, prefix, canonical) ==
    {i \in DOMAIN db.stations : CondMatches(prefix, db.stations[i].name)}

\* SELECT station_id, name FROM stations WHERE <cond> AND name <> ?
VariantIds(db, prefix, canonical) ==
    {i \in DOMAIN db.stations :
        CondMatches(prefix, db.stations[i].name) /\ db.stations[i].name # canonical}

SetCoordsSelect ==
    /\ pc = "sc_select"
    /\ UNCHANGED cleanup
    /\ UNCHANGED call
    /\ UNCHANGED main_locals
    /\ cond <= Len(name_like_conditions)
    /\ matches' \in Orderings(VariantIds(txn, name_like_conditions[cond], new_name))
    /\ pc' = "sc_loop"
    /\ UNCHANGED <<dbfile, txn, backups, backup_dir, run, rangoon_id, dups, merged, canonical_id, cond, out>>

SetCoordsPromote ==
    /\ pc = "sc_loop"
    /\ UNCHANGED cleanup
    /\ UNCHANGED call
    /\ UNCHANGED main_locals
    /\ matches # <<>>
    /\ canonical_id = <<>>
    /\ IF UniqueViolation(txn, Head(matches), new_name)
       THEN /\ Raise(txn)
            /\ out' = out
       ELSE /\ txn' = RenameStation(txn, Head(matches), new_name)
            /\ canonical_id' = <<Head(matches)>>
            /\ out' = Append(out, Line("promoted", "stations", <<>>, 0, Head(matches), 0))
            /\ matches' = Tail(matches)
            /\ pc' = "sc_loop"
            /\ UNCHANGED <<dbfile, rangoon_id, dups, merged, cond>>
    /\ UNCHANGED <<backups, backup_dir, run>>

SetCoordsRepoint ==
    /\ pc = "sc_loop"
    /\ UNCHANGED cleanup
    /\ UNCHANGED call
    /\ UNCHANGED main_locals
    /\ matches # <<>>
    /\ canonical_id # <<>>
    /\ txn' = RepointReports(txn, canonical_id[1], Head(matches))
    /\ pc' = "sc_delete"
    /\ UNCHANGED <<dbfile, backups, backup_dir, run, locals, out>>

SetCoordsDelete ==
    /\ pc = "sc_delete"
    /\ UNCHANGED cleanup
    /\ UNCHANGED call
    /\ UNCHANGED main_locals
    /\ txn' = DeleteStation(txn, Head(matches))
    /\ out' = Append(out, Line("merged_duplicate", "stations", <<>>, 0, Head(matches), canonical_id[1]))
    /\ matches' = Tail(matches)
    /\ pc' = "sc_loop"
    /\ UNCHANGED <<dbfile, backups, backup_dir, run, rangoon_id, dups, merged, canonical_id, cond>>

SetCoordsNextCond ==
    /\ pc = "sc_loop"
    /\ UNCHANGED cleanup
    /\ UNCHANGED call
    /\ UNCHANGED main_locals
    /\ matches = <<>>
    /\ cond' = cond + 1
    /\ pc' = "sc_select"
    /\ UNCHANGED <<dbfile, txn, backups, backup_dir, run, rangoon_id, dups, merged, canonical_id, matches, out>>

SetCoordsLatLon ==
    /\ pc = "sc_select"
    /\ UNCHANGED cleanup
    /\ UNCHANGED call
    /\ UNCHANGED main_locals
    /\ cond > Len(name_like_conditions)
    /\ txn' = SetLatLon(txn, Equals(new_name), new_lat, new_lon)
    /\ out' = Append(out, Line("set_coords", "stations", <<>>,
                               StationRowcount(txn, Equals(new_name)), 0, 0))
    /\ pc' = "sc_facts"
    /\ UNCHANGED <<dbfile, backups, backup_dir, run, locals>>

RECURSIVE SetCoordsFactLoop(_, _, _)
\* The nested loop over rangoon_targets and name_like_conditions, from its
\* k-th (table, cond) pair on.
SetCoordsFactLoop(db, k, lines) ==
    LET nc == Len(name_like_conditions)
        table == rangoon_targets[((k - 1) \div nc) + 1]
        prefix == name_like_conditions[((k - 1) % nc) + 1]
    IN  IF k > Len(rangoon_targets) * nc THEN [db |-> db, out |-> lines, ok |-> TRUE]
        ELSE IF table \notin db.tables THEN [db |-> db, out |-> lines, ok |-> FALSE]
        ELSE SetCoordsFactLoop(
                update_station_name(db, table, LowerLike(prefix), new_name),
                k + 1,
                Append(lines, Line("standardized", table, prefix,
                    FactRowcount(db, table, LowerLike(prefix)), 0, 0)))

SetCoordsFacts ==
    /\ pc = "sc_facts"
    /\ UNCHANGED cleanup
    /\ UNCHANGED call
    /\ UNCHANGED main_locals
    /\ LET r == SetCoordsFactLoop(txn, 1, out)
       IN  /\ out' = r.out
           /\ IF r.ok
              THEN /\ txn' = r.db
                   /\ pc' = "coords"
                   /\ UNCHANGED <<dbfile, locals>>
              ELSE Raise(r.db)
    /\ UNCHANGED <<backups, backup_dir, run>>

(***************************************************************************)
(* 4) Coordinates of specific stations, commit, summary.                   *)
(***************************************************************************)
RECURSIVE CoordsLoop(_, _, _)
CoordsLoop(db, k, lines) ==
    IF k > Len(coords) THEN [db |-> db, out |-> lines]
    ELSE CoordsLoop(
            SetLatLon(db, LowerLike(coords[k].prefix), coords[k].lat, coords[k].lon),
            k + 1,
            Append(lines, Line("coords", "stations", coords[k].prefix,
                StationRowcount(db, LowerLike(coords[k].prefix)), 0, 0)))

CoordsPass ==
    /\ pc = "coords"
    /\ UNCHANGED cleanup
    /\ UNCHANGED call
    /\ UNCHANGED main_locals
    /\ LET r == CoordsLoop(txn, 1, out)
       IN  /\ txn' = r.db
           /\ out' = r.out
    /\ pc' = "commit"
    /\ UNCHANGED <<dbfile, backups, backup_dir, run, locals>>

Commit ==
    /\ pc = "commit"
    /\ UNCHANGED cleanup
    /\ UNCHANGED call
    /\ UNCHANGED main_locals
    /\ dbfile' = txn
    /\ pc' = "summary"
    /\ UNCHANGED <<txn, backups, backup_dir, run, locals, out>>

\* The summary queries only read; conn.close() and the last print follow.
Close ==
    /\ pc = "summary"
    /\ UNCHANGED cleanup
    /\ UNCHANGED call
    /\ UNCHANGED main_locals
    /\ out' = Append(out, Line("complete", "", <<>>, 0, 0, 0))
    /\ pc' = "done"
    /\ NoLocals
    /\ UNCHANGED <<dbfile, txn, backups, backup_dir, run>>

(***************************************************************************)
(* The environment: the script is started again after a completed run, or  *)
(* the process is stopped between two statements.                          *)
(***************************************************************************)
Running ==
    {"start", "rangoon_facts", "rangoon_select", "rangoon_loop", "rangoon_delete",
     "set_coords", "sc_select", "sc_loop", "sc_delete", "sc_facts", "coords",
     "commit", "summary"}

Rerun ==
    /\ pc = "done"
    /\ UNCHANGED cleanup
    /\ UNCHANGED call
    /\ UNCHANGED main_locals
    /\ run < MaxRuns
    /\ run' = run + 1
    /\ pc' = "start"
    /\ out' = <<>>
    /\ UNCHANGED <<dbfile, txn, backups, backup_dir, locals>>

Kill ==
    /\ pc \in Running
    /\ UNCHANGED cleanup
    /\ UNCHANGED call
    /\ UNCHANGED main_locals
    /\ pc' = "killed"
    /\ dbfile' = Persisted(dbfile, txn)
    /\ txn' = dbfile'
    /\ NoLocals
    /\ UNCHANGED <<backups, backup_dir, run, out>>

Next ==
    \/ Backup
    \/ RangoonFacts
    \/ RangoonSelect
    \/ RangoonRepoint
    \/ RangoonDelete
    \/ RangoonRename
    \/ RangoonEnd
    \/ SetCoordsLookup
    \/ SetCoordsSelect
    \/ SetCoordsPromote
    \/ SetCoordsRepoint
    \/ SetCoordsDelete
    \/ SetCoordsNextCond
    \/ SetCoordsLatLon
    \/ SetCoordsFacts
    \/ CoordsPass
    \/ Commit
    \/ Close
    \/ Rerun
    \/ Kill

Spec == Init /\ [][Next]_vars

(***************************************************************************)
(* standardize_data.py: the four normalisers.  Python's None is NULL.      *)
(***************************************************************************)
\* The substrings the rules look for.
tok ==
    ("first" :> <<"f", "i", "r", "s", "t">>)
    @@ ("1st" :> <<"1", "s", "t">>)
    @@ ("second" :> <<"s", "e", "c", "o", "n", "d">>)
    @@ ("2nd" :> <<"2", "n", "d">>)
    @@ ("third" :> <<"t", "h", "i", "r", "d">>)
    @@ ("3rd" :> <<"3", "r", "d">>)
    @@ ("military" :> <<"m", "i", "l", "i", "t", "a", "r", "y">>)
    @@ ("civil" :> <<"c", "i", "v", "i", "l">>)
    @@ ("xiv" :> <<"x", "i", "v">>)
    @@ ("1868" :> <<"1", "8", "6", "8">>)
    @@ ("xxii" :> <<"x", "x", "i", "i">>)
    @@ ("1864" :> <<"1", "8", "6", "4">>)
    @@ ("iii" :> <<"i", "i", "i">>)
    @@ ("1880" :> <<"1", "8", "8", "0">>)
    @@ ("xii" :> <<"x", "i", "i">>)
    @@ ("voluntary" :> <<"v", "o", "l", "u", "n", "t", "a", "r", "y">>)
    @@ ("british india" :> <<"b", "r", "i", "t", "i", "s", "h", " ", "i", "n", "d", "i", "a">>)
    @@ ("burma" :> <<"b", "u", "r", "m", "a">>)
    @@ ("madras" :> <<"m", "a", "d", "r", "a", "s">>)
    @@ ("punjab" :> <<"p", "u", "n", "j", "a", "b">>)
    @@ ("central provinces" :> <<"c", "e", "n", "t", "r", "a", "l", " ", "p", "r", "o", "v", "i", "n", "c", "e", "s">>)
    @@ ("north-western provinces" :> <<"n", "o", "r", "t", "h", "-", "w", "e", "s", "t", "e", "r", "n", " ", "p", "r", "o", "v", "i", "n", "c", "e", "s">>)
    @@ ("oudh" :> <<"o", "u", "d", "h">>)

\* The labels the rules return.
label ==
    ("First Class" :> <<"F", "i", "r", "s", "t", " ", "C", "l", "a", "s", "s">>)
    @@ ("Second Class" :> <<"S", "e", "c", "o", "n", "d", " ", "C", "l", "a", "s", "s">>)
    @@ ("Third Class" :> <<"T", "h", "i", "r", "d", " ", "C", "l", "a", "s", "s">>)
    @@ ("Military" :> <<"M", "i", "l", "i", "t", "a", "r", "y">>)
    @@ ("Civil" :> <<"C", "i", "v", "i", "l">>)
    @@ ("Act XIV of 1868" :> <<"A", "c", "t", " ", "X", "I", "V", " ", "o", "f", " ", "1", "8", "6", "8">>)
    @@ ("Act XXII of 1864" :> <<"A", "c", "t", " ", "X", "X", "I", "I", " ", "o", "f", " ", "1", "8", "6", "4">>)
    @@ ("Act III of 1880" :> <<"A", "c", "t", " ", "I", "I", "I", " ", "o", "f", " ", "1", "8", "8", "0">>)
    @@ ("Act XII of 1864" :> <<"A", "c", "t", " ", "X", "I", "I", " ", "o", "f", " ", "1", "8", "6", "4">>)
    @@ ("Voluntary System" :> <<"V", "o", "l", "u", "n", "t", "a", "r", "y", " ", "S", "y", "s", "t", "e", "m">>)
    @@ ("British India" :> <<"B", "r", "i", "t", "i", "s", "h", " ", "I", "n", "d", "i", "a">>)
    @@ ("British Burma" :> <<"B", "r", "i", "t", "i", "s", "h", " ", "B", "u", "r", "m", "a">>)
    @@ ("Madras Presidency" :> <<"M", "a", "d", "r", "a", "s", " ", "P", "r", "e", "s", "i", "d", "e", "n", "c", "y">>)
    @@ ("Burma" :> <<"B", "u", "r", "m", "a">>)
    @@ ("Punjab" :> <<"P", "u", "n", "j", "a", "b">>)
    @@ ("Central Provinces" :> <<"C", "e", "n", "t", "r", "a", "l", " ", "P", "r", "o", "v", "i", "n", "c", "e", "s">>)
    @@ ("North-Western Provinces & Oudh" :> <<"N", "o", "r", "t", "h", "-", "W", "e", "s", "t", "e", "r", "n", " ", "P", "r", "o", "v", "i", "n", "c", "e", "s", " ", "&", " ", "O", "u", "d", "h">>)

\* `not value`: None and the empty string are falsy.
Falsy(value) == value = NULL \/ value = <<>>

IsLetter(c) ==
    \/ \E i \in DOMAIN UpperLetters : UpperLetters[i] = c
    \/ \E i \in DOMAIN LowerLetters : LowerLetters[i] = c

UpperChar(c) ==
    IF \E i \in DOMAIN LowerLetters : LowerLetters[i] = c
    THEN UpperLetters[CHOOSE i \in DOMAIN LowerLetters : LowerLetters[i] = c]
    ELSE c

\* What a call ends with when a str method is looked up on None: the
\* exception, which no caller catches.
AttributeError == <<"AttributeError">>

\* str.lower(); None has no such method
lower(s) == IF s = NULL THEN AttributeError ELSE [i \in DOMAIN s |-> LowerChar(s[i])]

IsSpace(c) == c \in {" ", "\t", "\n", "\r"}

\* str.strip(): leading and trailing whitespace goes, inner whitespace stays
strip(s) ==
    LET keep == {i \in DOMAIN s : ~IsSpace(s[i])}
    IN  IF keep = {} THEN <<>>
        ELSE SubSeq(s, CHOOSE i \in keep : \A j \in keep : i <= j,
                       CHOOSE i \in keep : \A j \in keep : i >= j)

\* `sub in s`
Contains(s, sub) ==
    \E i \in 1..(Len(s) - Len(sub) + 1) : SubSeq(s, i, i + Len(sub) - 1) = sub

\* str.title(): a letter is upper-cased when the character before it is not a
\* letter, lower-cased otherwise
title(s) ==
    [i \in DOMAIN s |->
        IF i = 1 \/ ~IsLetter(s[i - 1]) THEN UpperChar(s[i]) ELSE LowerChar(s[i])]

standardize_class(value) ==
    IF Falsy(value) THEN NULL
    ELSE LET v == strip(lower(value))
         IN  IF Contains(v, tok["first"]) \/ Contains(v, tok["1st"]) THEN label["First Class"]
             ELSE IF Contains(v, tok["second"]) \/ Contains(v, tok["2nd"]) THEN label["Second Class"]
             ELSE IF Contains(v, tok["third"]) \/ Contains(v, tok["3rd"]) THEN label["Third Class"]
             ELSE IF Contains(v, tok["military"]) THEN label["Military"]
             ELSE IF Contains(v, tok["civil"]) THEN label["Civil"]
             ELSE title(v)

standardize_act_roman_only(value) ==
    IF Falsy(value) THEN NULL
    ELSE LET v == strip(lower(value))
         IN  IF Contains(v, tok["xiv"]) THEN label["Act XIV of 1868"]
             ELSE IF Contains(v, tok["xxii"]) THEN label["Act XXII of 1864"]
             ELSE IF Contains(v, tok["iii"]) THEN label["Act III of 1880"]
             ELSE IF Contains(v, tok["xii"]) THEN label["Act XII of 1864"]
             ELSE IF Contains(v, tok["voluntary"]) THEN label["Voluntary System"]
             ELSE title(v)

standardize_act(value) ==
    IF Falsy(value) THEN NULL
    ELSE LET v == strip(lower(value))
         IN  IF Contains(v, tok["xiv"]) /\ Contains(v, tok["1868"]) THEN label["Act XIV of 1868"]
             ELSE IF Contains(v, tok["xxii"]) /\ Contains(v, tok["1864"]) THEN label["Act XXII of 1864"]
             ELSE IF Contains(v, tok["iii"]) /\ Contains(v, tok["1880"]) THEN label["Act III of 1880"]
             ELSE IF Contains(v, tok["xii"]) /\ Contains(v, tok["1864"]) THEN label["Act XII of 1864"]
             ELSE IF Contains(v, tok["voluntary"]) THEN label["Voluntary System"]
             ELSE title(v)

standardize_country(value) ==
    IF Falsy(value) THEN NULL
    ELSE LET v == strip(lower(value))
         IN  IF Contains(v, tok["british india"]) THEN label["British India"]
             ELSE IF Contains(v, tok["burma"]) THEN label["British Burma"]
             ELSE title(v)

standardize_region(value) ==
    IF Falsy(value) THEN NULL
    ELSE LET v == strip(lower(value))
         IN  IF Contains(v, tok["madras"]) THEN label["Madras Presidency"]
             ELSE IF Contains(v, tok["burma"]) THEN label["Burma"]
             ELSE IF Contains(v, tok["punjab"]) THEN label["Punjab"]
             ELSE IF Contains(v, tok["central provinces"]) THEN label["Central Provinces"]
             ELSE IF Contains(v, tok["north-western provinces"]) \/ Contains(v, tok["oudh"])
                  THEN label["North-Western Provinces & Oudh"]
             ELSE title(v)

(***************************************************************************)
(* standardize_data.py: main().  Of the database only hospital_operations  *)
(* is modelled here: main() reads and writes no other table.               *)
(***************************************************************************)
FullColumns ==
    <<"hid", "doc_id", "source_name", "source_type", "year", "region", "station",
      "country", "act", "class",
      "staff_medical_officers", "staff_hospital_assistants", "staff_matron",
      "staff_coolies", "staff_peons", "staff_watermen",
      "ops_inspection_regularity", "ops_unlicensed_control_notes",
      "ops_committee_activity_notes">>

KeptColumns ==
    <<"hid", "doc_id", "source_name", "source_type", "year", "region", "station",
      "country", "act", "class">>

\* A table that was not made by create_database: the columns come in another
\* order and there is no `class` column.
LegacyColumns ==
    <<"hid", "year", "doc_id", "source_name", "source_type", "station", "region",
      "country", "act">>

\* Categorical values as create_database stores them: the sheet's text, or
\* NULL for an empty cell.
SampleRows == <<
    [act |-> <<"A", "c", "t", " ", "N", "o", ".", " ", "X", "X", "I", "I", " ", "o", "f", " ", "1", "8", "6", "4", " ", "(", "a", "m", "e", "n", "d", "e", "d", ")">>,
     class |-> <<"2", "N", "D", " ", "C", "L", "A", "S", "S">>,
     country |-> <<"B", "r", "i", "t", "i", "s", "h", " ", "I", "n", "d", "i", "a">>,
     region |-> <<"N", ".", "W", ".", " ", "P", "r", "o", "v", "i", "n", "c", "e", "s", " ", "a", "n", "d", " ", "O", "u", "d", "h">>],
    [act |-> <<"x", "i", "v">>,
     class |-> <<"1", "s", "t", " ", "m", "i", "l", "i", "t", "a", "r", "y">>,
     country |-> <<"b", "u", "r", "m", "a">>,
     region |-> <<" ", " ", "M", "a", "d", "r", "a", "s", " ", " ", " ", "P", "r", "e", "s", "i", "d", "e", "n", "c", "y", " ">>],
    [act |-> <<"V", "o", "l", "u", "n", "t", "a", "r", "y">>,
     class |-> <<"e", "u", "r", "o", "p", "e", "a", "n">>,
     country |-> <<"C", "e", "y", "l", "o", "n">>,
     region |-> <<"B", "r", "i", "t", "i", "s", "h", " ", "B", "u", "r", "m", "a">>],
    [act |-> NULL,
     class |-> NULL,
     country |-> NULL,
     region |-> NULL],
    [act |-> <<"a", "c", "t", " ", "x", "i", "i", " ", "o", "f", " ", "1", "8", "6", "4">>,
     class |-> <<"4", "t", "h", " ", "c", "l", "a", "s", "s">>,
     country |-> <<" ", " ">>,
     region |-> <<" ", " ", " ">>],
    [act |-> <<"A", "c", "t", " ", "X", "I", "V", " ", "o", "f", " ", "1", "8", "6", "8">>,
     class |-> <<"C", "i", "v", "i", "l">>,
     country |-> <<"B", "r", "i", "t", "i", "s", "h", " ", "B", "u", "r", "m", "a">>,
     region |-> <<"P", "u", "n", "j", "a", "b">>] >>

Digits == <<"1", "2", "3", "4", "5", "6", "7", "8", "9">>

Hid(k) == <<"H", Digits[k]>>

ColumnSet(columns) == {columns[i] : i \in DOMAIN columns}

\* The k-th row of a table with the given columns, its categorical columns
\* taken from a sample.
OpsRow(columns, k, sample) ==
    [c \in ColumnSet(columns) |->
        CASE c = "hid" -> Hid(k)
          [] c = "doc_id" -> <<"D", "1">>
          [] c = "source_name" -> <<"R", "e", "p", "o", "r", "t">>
          [] c = "source_type" -> <<"a", "n", "n", "u", "a", "l">>
          [] c = "year" -> 1867 + k
          [] c = "station" -> TONGHOO
          [] c = "region" -> sample.region
          [] c = "country" -> sample.country
          [] c = "act" -> sample.act
          [] c = "class" -> sample.class
          [] c \in {"staff_medical_officers", "staff_hospital_assistants", "staff_matron",
                    "staff_coolies", "staff_peons", "staff_watermen"} -> k
          [] OTHER -> <<"w", "e", "e", "k", "l", "y">>]

OpsDatabase(tb, columns, rows) == [tables |-> tb, columns |-> columns, rows |-> rows]

NoOpsTable == OpsDatabase({}, <<>>, <<>>)

OpsTables(columns) ==
    UNION {{OpsDatabase({"hospital_operations"}, columns,
                        [k \in 1..n |-> OpsRow(columns, k, SampleRows[s[k]])])
            : s \in NonDecreasing(n, Len(SampleRows))} : n \in 0..MaxOpsRows}

InitialOpsDatabases ==
    {NoOpsTable} \cup OpsTables(FullColumns) \cup OpsTables(KeptColumns)
                 \cup OpsTables(LegacyColumns)

InitStd ==
    /\ dbfile \in InitialOpsDatabases
    /\ txn = dbfile
    /\ backups = <<>>
    /\ backup_dir = FALSE
    /\ pc = "std_start"
    /\ run = 1
    /\ rangoon_id = <<>>
    /\ dups = <<>>
    /\ merged = 0
    /\ canonical_id = <<>>
    /\ cond = 1
    /\ matches = <<>>
    /\ out = <<>>
    /\ all_data = <<>>
    /\ column_names = <<>>
    /\ keep_indices = <<>>
    /\ row = 1
    /\ raw = NULL
    /\ normalizer = ""
    /\ results = <<>>
    /\ files = <<>>
    /\ content = <<>>

NoMainLocals ==
    /\ all_data' = <<>>
    /\ column_names' = <<>>
    /\ keep_indices' = <<>>
    /\ row' = 1

\* A fetched row: the values in the order of the table's columns.
FetchRow(columns, r) == [j \in DOMAIN columns |-> r[columns[j]]]

\* list.index, counting from 1
IndexOf(names, c) == CHOOSE i \in DOMAIN names : names[i] = c

\* "Back up current data": the rows and the column names are read into memory.
StdRead ==
    /\ pc = "std_start"
    /\ UNCHANGED cleanup
    /\ UNCHANGED call
    /\ IF "hospital_operations" \notin txn.tables
       THEN /\ Raise(txn)
            /\ NoMainLocals
            /\ UNCHANGED <<backups, backup_dir, run, out>>
       ELSE /\ all_data' = [i \in DOMAIN txn.rows |-> FetchRow(txn.columns, txn.rows[i])]
            /\ column_names' = txn.columns
            /\ pc' = "std_drop"
            /\ UNCHANGED <<dbfile, txn, backups, backup_dir, run, locals, out,
                           keep_indices, row>>

\* DROP TABLE IF EXISTS.  No transaction is open (only SELECT and PRAGMA ran),
\* and sqlite3 opens none for DDL: the statement is durable at once.
StdDrop ==
    /\ pc = "std_drop"
    /\ UNCHANGED cleanup
    /\ UNCHANGED call
    /\ txn' = OpsDatabase(txn.tables \ {"hospital_operations"}, <<>>, <<>>)
    /\ dbfile' = txn'
    /\ pc' = "std_create"
    /\ UNCHANGED <<backups, backup_dir, run, locals, out, main_locals>>

\* CREATE TABLE with the ten kept columns; durable at once, like the DROP.
StdCreate ==
    /\ pc = "std_create"
    /\ UNCHANGED cleanup
    /\ UNCHANGED call
    /\ txn' = OpsDatabase(txn.tables \cup {"hospital_operations"}, KeptColumns, <<>>)
    /\ dbfile' = txn'
    /\ pc' = "std_indices"
    /\ UNCHANGED <<backups, backup_dir, run, locals, out, main_locals>>

\* column_names.index(...) raises ValueError for a column the old table lacked.
StdKeepIndices ==
    /\ pc = "std_indices"
    /\ UNCHANGED cleanup
    /\ UNCHANGED call
    /\ IF \A i \in DOMAIN KeptColumns : KeptColumns[i] \in ColumnSet(column_names)
       THEN /\ keep_indices' = [i \in DOMAIN KeptColumns |->
                                    IndexOf(column_names, KeptColumns[i])]
            /\ row' = 1
            /\ pc' = "std_insert"
            /\ UNCHANGED <<dbfile, txn, backups, backup_dir, run, locals, out,
                           all_data, column_names>>
       ELSE /\ Raise(txn)
            /\ NoMainLocals
            /\ UNCHANGED <<backups, backup_dir, run, out>>

\* new_row after the four assignments; new_row[8], [9], [7], [5] of the code
\* are positions 9, 10, 8, 6 here.
NewRow(old, indices) ==
    LET picked == [i \in DOMAIN indices |-> old[indices[i]]]
    IN  [picked EXCEPT ![9] = standardize_act(@),
                       ![10] = standardize_class(@),
                       ![8] = standardize_country(@),
                       ![6] = standardize_region(@)]

\* One iteration of the insert loop.  The INSERT opens the transaction.
StdInsert ==
    /\ pc = "std_insert"
    /\ UNCHANGED cleanup
    /\ UNCHANGED call
    /\ row <= Len(all_data)
    /\ LET new_row == NewRow(all_data[row], keep_indices)
           inserted == [c \in ColumnSet(KeptColumns) |-> new_row[IndexOf(KeptColumns, c)]]
       IN  IF \E i \in DOMAIN txn.rows : txn.rows[i].hid = inserted.hid
           THEN /\ Raise(txn)
                /\ NoMainLocals
                /\ UNCHANGED <<backups, backup_dir, run, out>>
           ELSE /\ txn' = [txn EXCEPT !.rows = Append(@, inserted)]
                /\ row' = row + 1
                /\ UNCHANGED <<dbfile, backups, backup_dir, pc, run, locals, out,
                               all_data, column_names, keep_indices>>

StdCommit ==
    /\ pc = "std_insert"
    /\ UNCHANGED cleanup
    /\ UNCHANGED call
    /\ row > Len(all_data)
    /\ dbfile' = txn
    /\ pc' = "std_verify"
    /\ UNCHANGED <<txn, backups, backup_dir, run, locals, out, main_locals>>

\* The verification queries only read; conn.close() and the last print follow.
StdClose ==
    /\ pc = "std_verify"
    /\ UNCHANGED cleanup
    /\ UNCHANGED call
    /\ out' = Append(out, Line("complete", "hospital_operations", <<>>, 0, 0, 0))
    /\ pc' = "done"
    /\ NoMainLocals
    /\ UNCHANGED <<dbfile, txn, backups, backup_dir, run, locals>>

StdRunning == {"std_start", "std_drop", "std_create", "std_indices", "std_insert", "std_verify"}

StdRerun ==
    /\ pc = "done"
    /\ UNCHANGED cleanup
    /\ UNCHANGED call
    /\ run < MaxRuns
    /\ run' = run + 1
    /\ pc' = "std_start"
    /\ out' = <<>>
    /\ UNCHANGED <<dbfile, txn, backups, backup_dir, locals, main_locals>>

StdKill ==
    /\ pc \in StdRunning
    /\ UNCHANGED cleanup
    /\ UNCHANGED call
    /\ pc' = "killed"
    /\ dbfile' = Persisted(dbfile, txn)
    /\ txn' = dbfile'
    /\ NoMainLocals
    /\ UNCHANGED <<backups, backup_dir, run, locals, out>>

NextStd ==
    \/ StdRead
    \/ StdDrop
    \/ StdCreate
    \/ StdKeepIndices
    \/ StdInsert
    \/ StdCommit
    \/ StdClose
    \/ StdRerun
    \/ StdKill

SpecStd == InitStd /\ [][NextStd]_vars

(***************************************************************************)
(* analyze_hospital_ops.py: clean_text and its own standardize_class and   *)
(* standardize_act, which test absence with pd.isna.                       *)
(***************************************************************************)
isna_never(x) == FALSE

\* pd.isna of a scalar read from the table: true for None, false for a string
isna(x) == x = NULL

\* str.split() without arguments: the maximal runs of non-whitespace
RECURSIVE split(_)
split(s) ==
    IF s = NULL THEN <<AttributeError>>
    ELSE IF s = <<>> THEN <<>>
    ELSE IF IsSpace(s[1]) THEN split(Tail(s))
    ELSE LET n == CHOOSE k \in 1..Len(s) :
                     /\ \A i \in 1..k : ~IsSpace(s[i])
                     /\ k = Len(s) \/ IsSpace(s[k + 1])
         IN  <<SubSeq(s, 1, n)>> \o split(SubSeq(s, n + 1, Len(s)))

\* sep.join(words)
RECURSIVE join(_, _)
join(sep, words) ==
    IF words = <<>> THEN <<>>
    ELSE IF Len(words) = 1 THEN words[1]
    ELSE words[1] \o sep \o join(sep, Tail(words))

clean_text_trim_only(text) ==
    IF isna(text) THEN NULL
    ELSE strip(text)

clean_text(text) ==
    IF isna(text) THEN NULL
    ELSE strip(join(<<" ">>, split(text)))

analyze_standardize_class(value) ==
    IF isna(value) THEN NULL
    ELSE LET v == strip(lower(value))
         IN  IF Contains(v, tok["first"]) \/ Contains(v, tok["1st"]) THEN label["First Class"]
             ELSE IF Contains(v, tok["second"]) \/ Contains(v, tok["2nd"]) THEN label["Second Class"]
             ELSE IF Contains(v, tok["third"]) \/ Contains(v, tok["3rd"]) THEN label["Third Class"]
             ELSE IF Contains(v, tok["military"]) THEN label["Military"]
             ELSE IF Contains(v, tok["civil"]) THEN label["Civil"]
             ELSE title(v)

analyze_standardize_act(value) ==
    IF isna(value) THEN NULL
    ELSE LET v == strip(lower(value))
         IN  IF Contains(v, tok["xiv"]) /\ Contains(v, tok["1868"]) THEN label["Act XIV of 1868"]
             ELSE IF Contains(v, tok["xxii"]) /\ Contains(v, tok["1864"]) THEN label["Act XXII of 1864"]
             ELSE IF Contains(v, tok["iii"]) /\ Contains(v, tok["1880"]) THEN label["Act III of 1880"]
             ELSE title(v)

(***************************************************************************)
(* One call of a normaliser on a raw value, and a second call on what the  *)
(* first returned.                                                         *)
(***************************************************************************)
Fragments ==
    <<<<" ">>,
      <<"1", "s", "t", " ">>,
      <<"m", "i", "l", "i", "t", "a", "r", "y">>,
      <<"S", "e", "c", "o", "n", "d">>,
      <<"c", "i", "v", "i", "l">>,
      <<"x", "i", "v", " ">>,
      <<"1", "8", "6", "8">>,
      <<"x", "x", "i", "i", " ">>,
      <<"x", "i", "i", " ">>,
      <<"1", "8", "6", "4">>,
      <<"i", "i", "i">>,
      <<"1", "8", "8", "0">>,
      <<"V", "o", "l", "u", "n", "t", "a", "r", "y">>,
      <<"B", "r", "i", "t", "i", "s", "h", " ", "I", "n", "d", "i", "a">>,
      <<"b", "u", "r", "m", "a">>,
      <<"M", "a", "d", "r", "a", "s", " ", "\t">>,
      <<"O", "u", "d", "h">>,
      <<"e", "u", "r", "o", "p", "e", "a", "n">>>>

WholeValues ==
    {<<"x", "i", "v">>,
     <<" ", " ", "M", "a", "d", "r", "a", "s", " ", " ", " ", "P", "r", "e", "s", "i", "d", "e", "n", "c", "y", " ">>,
     <<"N", ".", "W", ".", " ", "P", "r", "o", "v", "i", "n", "c", "e", "s", " ", "a", "n", "d", " ", "O", "u", "d", "h">>,
     <<"p", "u", "n", "j", "a", "b", " ", "h", "i", "l", "l", "s">>,
     <<"C", "e", "n", "t", "r", "a", "l", " ", "P", "r", "o", "v", "i", "n", "c", "e", "s">>,
     <<"N", "o", "r", "t", "h", "-", "W", "e", "s", "t", "e", "r", "n", " ", "P", "r", "o", "v", "i", "n", "c", "e", "s">>,
     <<"T", "H", "I", "R", "D", " ", "c", "l", "a", "s", "s">>,
     <<"3", "r", "d">>,
     <<"2", "N", "D">>,
     <<"4", "t", "h", " ", "x">>,
     <<"F", "i", "r", "s", "t", " ", "C", "l", "a", "s", "s">>,
     <<"S", "e", "c", "o", "n", "d", " ", "C", "l", "a", "s", "s">>,
     <<"T", "h", "i", "r", "d", " ", "C", "l", "a", "s", "s">>,
     <<"M", "i", "l", "i", "t", "a", "r", "y">>,
     <<"C", "i", "v", "i", "l">>,
     <<"A", "c", "t", " ", "X", "I", "V", " ", "o", "f", " ", "1", "8", "6", "8">>,
     <<"A", "c", "t", " ", "X", "X", "I", "I", " ", "o", "f", " ", "1", "8", "6", "4">>,
     <<"A", "c", "t", " ", "I", "I", "I", " ", "o", "f", " ", "1", "8", "8", "0">>,
     <<"A", "c", "t", " ", "X", "I", "I", " ", "o", "f", " ", "1", "8", "6", "4">>,
     <<"V", "o", "l", "u", "n", "t", "a", "r", "y", " ", "S", "y", "s", "t", "e", "m">>,
     <<"B", "r", "i", "t", "i", "s", "h", " ", "B", "u", "r", "m", "a">>,
     <<"M", "a", "d", "r", "a", "s", " ", "P", "r", "e", "s", "i", "d", "e", "n", "c", "y">>,
     <<"B", "u", "r", "m", "a">>,
     <<"P", "u", "n", "j", "a", "b">>,
     <<"N", "o", "r", "t", "h", "-", "W", "e", "s", "t", "e", "r", "n", " ", "P", "r", "o", "v", "i", "n", "c", "e", "s", " ", "&", " ", "O", "u", "d", "h">>}

RECURSIVE Flatten(_)
Flatten(parts) == IF parts = <<>> THEN <<>> ELSE Head(parts) \o Flatten(Tail(parts))

\* The raw values: absence, texts put together from at most MaxWords
\* fragments, and whole values.
RawValues ==
    {NULL} \cup WholeValues \cup
    UNION {{Flatten([i \in 1..n |-> Fragments[f[i]]]) : f \in [1..n -> DOMAIN Fragments]}
           : n \in 0..MaxWords}

InitNorm ==
    /\ raw \in RawValues
    /\ normalizer = ""
    /\ results = <<>>
    /\ files = <<>>
    /\ content = <<>>
    /\ dbfile = NoOpsTable
    /\ txn = dbfile
    /\ backups = <<>>
    /\ backup_dir = FALSE
    /\ pc = "call"
    /\ run = 1
    /\ rangoon_id = <<>>
    /\ dups = <<>>
    /\ merged = 0
    /\ canonical_id = <<>>
    /\ cond = 1
    /\ matches = <<>>
    /\ out = <<>>
    /\ all_data = <<>>
    /\ column_names = <<>>
    /\ keep_indices = <<>>
    /\ row = 1

Normalize(name, v) ==
    CASE name = "standardize_class" -> standardize_class(v)
      [] name = "standardize_act" -> standardize_act(v)
      [] name = "standardize_country" -> standardize_country(v)
      [] name = "standardize_region" -> standardize_region(v)
      [] name = "analyze_standardize_class" -> analyze_standardize_class(v)
      [] name = "analyze_standardize_act" -> analyze_standardize_act(v)
      [] name = "clean_text" -> clean_text(v)

\* The call and its return value.
Returned(name) ==
    /\ normalizer' = name
    /\ results' = <<Normalize(name, raw)>>
    /\ pc' = "returned"
    /\ UNCHANGED <<raw, dbfile, txn, backups, backup_dir, run, locals, out, main_locals>>

CallStandardizeClass ==
    /\ pc = "call"
    /\ UNCHANGED cleanup
    /\ Returned("standardize_class")

CallStandardizeAct ==
    /\ pc = "call"
    /\ UNCHANGED cleanup
    /\ Returned("standardize_act")

CallStandardizeCountry ==
    /\ pc = "call"
    /\ UNCHANGED cleanup
    /\ Returned("standardize_country")

CallStandardizeRegion ==
    /\ pc = "call"
    /\ UNCHANGED cleanup
    /\ Returned("standardize_region")

CallAnalyzeStandardizeClass ==
    /\ pc = "call"
    /\ UNCHANGED cleanup
    /\ Returned("analyze_standardize_class")

CallAnalyzeStandardizeAct ==
    /\ pc = "call"
    /\ UNCHANGED cleanup
    /\ Returned("analyze_standardize_act")

CallCleanText ==
    /\ pc = "call"
    /\ UNCHANGED cleanup
    /\ Returned("clean_text")

\* The same function applied to its own result.
CallAgain ==
    /\ pc = "returned"
    /\ UNCHANGED cleanup
    /\ results' = Append(results, Normalize(normalizer, results[1]))
    /\ pc' = "returned_twice"
    /\ UNCHANGED <<raw, normalizer, dbfile, txn, backups, backup_dir, run, locals, out,
                   main_locals>>

NextNorm ==
    \/ CallStandardizeClass
    \/ CallStandardizeAct
    \/ CallStandardizeCountry
    \/ CallStandardizeRegion
    \/ CallAnalyzeStandardizeClass
    \/ CallAnalyzeStandardizeAct
    \/ CallCleanText
    \/ CallAgain

SpecNorm == InitNorm /\ [][NextNorm]_vars

(***************************************************************************)
(* create_database.py: extract_data_from_excel builds station_reports from *)
(* the three fact tables.  A fact row is here its doc_id ("None" for NULL) *)
(* and its station text.                                                   *)
(***************************************************************************)
\* The k-th kind of fact row: its table, its doc_id and its station text.
SheetRow(k) ==
    LET tables == <<"women_data", "troop_data", "hospital_operations">>
        docs == <<"D1", "None">>
        stations == <<TONGHOO, RANGOON>>
    IN  [table |-> tables[((k - 1) \div 4) + 1],
         doc_id |-> docs[(((k - 1) \div 2) % 2) + 1],
         station |-> stations[((k - 1) % 2) + 1]]

\* The stations were committed at line 164; the fact rows are inserted in the
\* transaction that the station_reports statements continue.
InitReports ==
    /\ \E st \in StationTables(2), n \in 0..MaxSheetRows :
       \E k \in NonDecreasing(n, 12) :
          LET sheets == [t \in CreatedTables |->
                  LET InTable(x) == x.table = t
                      mine == SelectSeq([i \in 1..n |-> SheetRow(k[i])], InTable)
                  IN  [i \in DOMAIN mine |-> [doc_id |-> mine[i].doc_id,
                                              station |-> mine[i].station]]]
          IN  /\ dbfile = Database(st, <<>>, CreatedTables, [t \in CreatedTables |-> <<>>])
              /\ txn = Database(st, <<>>, CreatedTables, sheets)
    /\ backups = <<>>
    /\ backup_dir = FALSE
    /\ pc = "reports_women"
    /\ run = 1
    /\ rangoon_id = <<>>
    /\ dups = <<>>
    /\ merged = 0
    /\ canonical_id = <<>>
    /\ cond = 1
    /\ matches = <<>>
    /\ out = <<>>
    /\ all_data = <<>>
    /\ column_names = <<>>
    /\ keep_indices = <<>>
    /\ row = 1
    /\ raw = NULL
    /\ normalizer = ""
    /\ results = <<>>
    /\ files = <<>>
    /\ content = <<>>

\* SELECT DISTINCT f.doc_id, s.station_id FROM <table> f JOIN stations s
\* ON f.station = s.name WHERE f.doc_id IS NOT NULL AND s.station_id IS NOT NULL
DistinctPairs(db, table) ==
    UNION {{<<db.facts[table][k].doc_id, i>> :
               i \in {j \in DOMAIN db.stations :
                         db.stations[j].name = db.facts[table][k].station}}
           : k \in {j \in DOMAIN db.facts[table] : db.facts[table][j].doc_id # "None"}}

\* INSERT [OR IGNORE] INTO station_reports (doc_id, station_id) for the
\* selected pairs, in the order the SELECT returns them.  OR IGNORE skips a
\* row that would violate a constraint; station_reports has none but its
\* primary key report_id, which the statement leaves to AUTOINCREMENT, so
\* that no row is skipped.
InsertReports(db, pairs) ==
    [db EXCEPT !.station_reports =
        @ \o [i \in DOMAIN pairs |-> [doc_id |-> pairs[i][1], station_id |-> pairs[i][2]]]]

ReportsFromWomen ==
    /\ pc = "reports_women"
    /\ UNCHANGED cleanup
    /\ \E pairs \in Orderings(DistinctPairs(txn, "women_data")) :
          txn' = InsertReports(txn, pairs)
    /\ pc' = "reports_troops"
    /\ UNCHANGED <<dbfile, backups, backup_dir, run, locals, out, main_locals, call>>

ReportsFromTroops ==
    /\ pc = "reports_troops"
    /\ UNCHANGED cleanup
    /\ \E pairs \in Orderings(DistinctPairs(txn, "troop_data")) :
          txn' = InsertReports(txn, pairs)
    /\ pc' = "reports_hospitals"
    /\ UNCHANGED <<dbfile, backups, backup_dir, run, locals, out, main_locals, call>>

ReportsFromHospitals ==
    /\ pc = "reports_hospitals"
    /\ UNCHANGED cleanup
    /\ \E pairs \in Orderings(DistinctPairs(txn, "hospital_operations")) :
          txn' = InsertReports(txn, pairs)
    /\ pc' = "reports_commit"
    /\ UNCHANGED <<dbfile, backups, backup_dir, run, locals, out, main_locals, call>>

ReportsCommit ==
    /\ pc = "reports_commit"
    /\ UNCHANGED cleanup
    /\ dbfile' = txn
    /\ out' = Append(out, Line("complete", "station_reports", <<>>,
                               Len(txn.station_reports), 0, 0))
    /\ pc' = "extracted"
    /\ UNCHANGED <<txn, backups, backup_dir, run, locals, main_locals, call>>

\* The process is stopped before the commit of line 279.
ReportsKill ==
    /\ pc \in {"reports_women", "reports_troops", "reports_hospitals", "reports_commit"}
    /\ UNCHANGED cleanup
    /\ pc' = "killed"
    /\ dbfile' = Persisted(dbfile, txn)
    /\ txn' = dbfile'
    /\ UNCHANGED <<backups, backup_dir, run, locals, out, main_locals, call>>

NextReports ==
    \/ ReportsFromWomen
    \/ ReportsFromTroops
    \/ ReportsFromHospitals
    \/ ReportsCommit
    \/ ReportsKill

SpecReports == InitReports /\ [][NextReports]_vars

(***************************************************************************)
(* cleanup_irrelevant_code.py.  app.R is a sequence of blocks: a block is  *)
(* a piece of text that one of the patterns begins with, ends with or      *)
(* matches whole, or CODE, text that no pattern touches.                   *)
(***************************************************************************)
APP_R == "app.R"

BEFORE_FINAL_CLEANUP == "app.R.before_final_cleanup"

Blocks ==
    <<"CODE",
      "railway_lines <- tryCatch",
      "# Enrich railway stations",
      "# Load override CSV",
      "draw_rail_overlays <- function",
      "invisible(NULL)",
      "Railway Lines & Stations",
      "Railway Lines in Operation",
      "output$railway_lines_table",
      "# Toggle to disable heavy analytics",
      "SAFE_MODE <- TRUE",
      "# Respect SAFE_MODE toggle",
      "Disabled in safe mode",
      "# DS_Dataset ingestion",
      "# Admissions by Region - controls",
      "## Optional: Excel ingestion">>

\* re.sub of a pattern that one block matches whole.
sub(block, repl, text) ==
    Flatten([i \in DOMAIN text |-> IF text[i] = block THEN repl ELSE <<text[i]>>])

\* re.sub, with re.DOTALL, of first.*?last : from the leftmost first to the
\* nearest last after it, and again behind the replacement.
RECURSIVE sub_span(_, _, _, _)
sub_span(first, last, repl, text) ==
    IF text = <<>> THEN <<>>
    ELSE IF Head(text) = first /\ \E j \in 2..Len(text) : text[j] = last
    THEN LET j == CHOOSE k \in 2..Len(text) :
                    text[k] = last /\ \A l \in 2..(k - 1) : text[l] # last
         IN  repl \o sub_span(first, last, repl, SubSeq(text, j + 1, Len(text)))
    ELSE <<Head(text)>> \o sub_span(first, last, repl, Tail(text))

remove_railway_lines(text) ==
    LET c1 == sub("railway_lines <- tryCatch", <<"railway_lines <- NULL">>, text)
        c2 == sub("# Enrich railway stations", <<"# Railway line enrichment removed">>, c1)
        c3 == sub("# Load override CSV", <<"# Railway lines override CSV loading removed">>, c2)
        c4 == sub_span("draw_rail_overlays <- function", "invisible(NULL)",
                       <<"draw_rail_overlays <- function", "(stations only)",
                         "invisible(NULL)">>, c3)
        c5 == sub("Railway Lines & Stations", <<"Railway Stations">>, c4)
        c6 == sub("Railway Lines in Operation", <<"box(title = Railway Stations">>, c5)
    IN  sub("output$railway_lines_table", <<>>, c6)

remove_safe_mode(text) ==
    sub_span("# Respect SAFE_MODE toggle", "Disabled in safe mode", <<>>,
             sub_span("# Toggle to disable heavy analytics", "SAFE_MODE <- TRUE", <<>>, text))

remove_ds_dataset(text) ==
    sub("## Optional: Excel ingestion", <<>>,
        sub_span("# DS_Dataset ingestion", "# Admissions by Region - controls",
                 <<"# Admissions by Region - controls">>, text))

\* The working directory: app.R, and perhaps a copy of it that was made by
\* hand under the name the last message of main gives.
InitCleanup ==
    /\ \E n \in 0..MaxBlocks : \E c \in [1..n -> {Blocks[k] : k \in DOMAIN Blocks}] :
          files \in {APP_R :> c, (APP_R :> c) @@ (BEFORE_FINAL_CLEANUP :> c)}
    /\ content = <<>>
    /\ raw = NULL
    /\ normalizer = ""
    /\ results = <<>>
    /\ dbfile = NoOpsTable
    /\ txn = dbfile
    /\ backups = <<>>
    /\ backup_dir = FALSE
    /\ pc = "cleanup_read"
    /\ run = 1
    /\ rangoon_id = <<>>
    /\ dups = <<>>
    /\ merged = 0
    /\ canonical_id = <<>>
    /\ cond = 1
    /\ matches = <<>>
    /\ out = <<>>
    /\ all_data = <<>>
    /\ column_names = <<>>
    /\ keep_indices = <<>>
    /\ row = 1

CleanupRead ==
    /\ pc = "cleanup_read"
    /\ content' = files[APP_R]
    /\ out' = Append(out, Line("original", APP_R, <<>>, Len(files[APP_R]), 0, 0))
    /\ pc' = "cleanup_railway"
    /\ UNCHANGED <<files, dbfile, txn, backups, backup_dir, run, locals, main_locals, call>>

CleanupRailwayLines ==
    /\ pc = "cleanup_railway"
    /\ content' = remove_railway_lines(content)
    /\ pc' = "cleanup_safe_mode"
    /\ UNCHANGED <<files, out, dbfile, txn, backups, backup_dir, run, locals, main_locals, call>>

CleanupSafeMode ==
    /\ pc = "cleanup_safe_mode"
    /\ content' = remove_safe_mode(content)
    /\ pc' = "cleanup_ds_dataset"
    /\ UNCHANGED <<files, out, dbfile, txn, backups, backup_dir, run, locals, main_locals, call>>

CleanupDsDataset ==
    /\ pc = "cleanup_ds_dataset"
    /\ content' = remove_ds_dataset(content)
    /\ pc' = "cleanup_open"
    /\ UNCHANGED <<files, out, dbfile, txn, backups, backup_dir, run, locals, main_locals, call>>

\* open('app.R', 'w') truncates the file.
CleanupOpen ==
    /\ pc = "cleanup_open"
    /\ files' = [files EXCEPT ![APP_R] = <<>>]
    /\ pc' = "cleanup_write"
    /\ UNCHANGED <<content, out, dbfile, txn, backups, backup_dir, run, locals, main_locals, call>>

\* f.write(content) and the end of the with block.
CleanupWrite ==
    /\ pc = "cleanup_write"
    /\ files' = [files EXCEPT ![APP_R] = content]
    /\ pc' = "cleanup_report"
    /\ UNCHANGED <<content, out, dbfile, txn, backups, backup_dir, run, locals, main_locals, call>>

CleanupReport ==
    /\ pc = "cleanup_report"
    /\ out' = out \o <<Line("final", APP_R, <<>>, Len(content), 0, 0),
                       Line("complete", BEFORE_FINAL_CLEANUP, <<>>, 0, 0, 0)>>
    /\ pc' = "cleaned"
    /\ UNCHANGED <<files, content, dbfile, txn, backups, backup_dir, run, locals, main_locals, call>>

\* The process is stopped somewhere in main.
CleanupKill ==
    /\ pc \in {"cleanup_read", "cleanup_railway", "cleanup_safe_mode",
               "cleanup_ds_dataset", "cleanup_open", "cleanup_write", "cleanup_report"}
    /\ pc' = "killed"
    /\ UNCHANGED <<files, content, out, dbfile, txn, backups, backup_dir, run, locals, main_locals, call>>

\* The script is run again on the app.R it left.
CleanupRerun ==
    /\ pc = "cleaned"
    /\ run < MaxRuns
    /\ run' = run + 1
    /\ content' = <<>>
    /\ out' = <<>>
    /\ pc' = "cleanup_read"
    /\ UNCHANGED <<files, dbfile, txn, backups, backup_dir, locals, main_locals, call>>

NextCleanup ==
    \/ CleanupRead
    \/ CleanupRailwayLines
    \/ CleanupSafeMode
    \/ CleanupDsDataset
    \/ CleanupOpen
    \/ CleanupWrite
    \/ CleanupReport
    \/ CleanupKill
    \/ CleanupRerun

SpecCleanup == InitCleanup /\ [][NextCleanup]_vars

(***************************************************************************)
(* Properties.                                                             *)
(***************************************************************************)
Last(q) == q[Len(q)]

\* The run has not been ended by an exception or from outside.
Alive == pc \notin {"failed", "killed"}

\* The lines of the current run that report a merge of a row into an anchor.
MergeLines == {k \in DOMAIN out : out[k].kind \in {"merged", "merged_duplicate"}}

Referenced(db, id) ==
    \E r \in DOMAIN db.station_reports : db.station_reports[r].station_id = id

RefIntegrity(db) ==
    \A r \in DOMAIN db.station_reports :
        db.station_reports[r].station_id \in DOMAIN db.stations

HasPrefix(s, prefix) ==
    Len(s) >= Len(prefix) /\ \A i \in 1..Len(prefix) : LowerChar(s[i]) = prefix[i]

NamedIds(db, name) == {i \in DOMAIN db.stations : db.stations[i].name = name}

\* C1: once a merge pass has reported the merge of row B into an anchor, no
\* station_reports row holds B's id and no stations row has B's id.
C1_MergedRowGone ==
    Alive => \A k \in MergeLines :
                /\ out[k].id \notin DOMAIN txn.stations
                /\ ~Referenced(txn, out[k].id)

\* A merge has been reported of a row that reports referred to before the run.
C1_Witness ==
    /\ pc = "done"
    /\ \E k \in MergeLines : Referenced(Last(backups), out[k].id)

\* C2: if every station_reports row referred to an existing station before the
\* run, then so it does after every statement of the run, in the connection's
\* view and in the file.
C2_IntegrityKept ==
    (Len(backups) = run /\ RefIntegrity(backups[run]))
        => (RefIntegrity(txn) /\ RefIntegrity(dbfile))

\* Between a repoint and the delete that follows it, for a row that had reports.
C2_Witness ==
    /\ Len(backups) = run
    /\ RefIntegrity(backups[run])
    /\ \/ pc = "rangoon_delete" /\ Referenced(Last(backups), Head(dups))
       \/ pc = "sc_delete" /\ Referenced(Last(backups), Head(matches))

SetCoordsOver == pc \in {"sc_facts", "coords", "commit", "summary", "done"}

\* C3: after set_coords at most one stations row is named new_name and no row
\* with another name matches 'seetabuldee%' or 'sitabaldi%'.
C3_CanonicalSingular ==
    SetCoordsOver =>
        /\ Cardinality(NamedIds(txn, SITABALDI_NAGPUR)) <= 1
        /\ \A i \in DOMAIN txn.stations :
              (HasPrefix(txn.stations[i].name, seetabuldee) \/ HasPrefix(txn.stations[i].name, sitabaldi))
                  => txn.stations[i].name = SITABALDI_NAGPUR

\* set_coords promoted one variant and merged another.
C3_Witness ==
    /\ SetCoordsOver
    /\ \E k \in DOMAIN out : out[k].kind = "promoted"
    /\ \E k \in DOMAIN out : out[k].kind = "merged_duplicate"

RangoonLoopEntered == \E k \in DOMAIN out : out[k].kind \in {"merged", "renamed"}

RangoonLoopLeft ==
    pc \in {"failed", "set_coords", "sc_select", "sc_loop", "sc_delete", "sc_facts",
            "coords", "commit", "summary", "done"}

\* C4 (as claimed): for every initial stations table the Rangoon merge loop
\* ends with at most one row named 'Rangoon' and no row whose lowercased name
\* starts with 'india (british burma)'.
C4_RangoonSingular ==
    (RangoonLoopEntered /\ RangoonLoopLeft) =>
        /\ Cardinality(NamedIds(txn, RANGOON)) <= 1
        /\ \A i \in DOMAIN txn.stations : ~HasPrefix(txn.stations[i].name, india_british_burma)

\* C5: a run started right after a completed run leaves stations,
\* station_reports and the fact tables as that run left them.
C5_SecondRunChangesNothing ==
    (run >= 2 /\ pc \in {"summary", "done"}) => dbfile = backups[run]

\* A second run has ended after a first run that changed the database.
C5_Witness ==
    /\ run = 2
    /\ pc = "done"
    /\ backups[1] # backups[2]

CountLines == {k \in DOMAIN out : out[k].kind \in {"rangoon", "merge_ops", "set_coords", "standardized"}}

\* C6 (as claimed): on a second consecutive run every reported count is zero.
C6_SecondRunAllZero ==
    (run >= 2 /\ pc = "done") => \A k \in CountLines : out[k].n = 0

\* C6 (amended): on a second consecutive run the Rangoon counts and the counts
\* of the 'seetabuldee%' condition are zero; the coordinate update of
\* set_coords reports the number of stations rows named new_name, and the
\* 'sitabaldi%' condition reports the rows of the table that hold new_name.
C6_SecondRunCounts ==
    (run >= 2 /\ pc = "done") => \A k \in CountLines :
        CASE out[k].kind = "set_coords" ->
                out[k].n = Cardinality(NamedIds(dbfile, SITABALDI_NAGPUR))
          [] out[k].kind = "standardized" /\ out[k].cond = sitabaldi ->
                out[k].n = Cardinality({j \in DOMAIN dbfile.facts[out[k].table] :
                                dbfile.facts[out[k].table][j].station = SITABALDI_NAGPUR})
          [] OTHER -> out[k].n = 0

\* A second run that reports a count that is not zero.
C6_Witness ==
    /\ run = 2
    /\ pc = "done"
    /\ \E k \in CountLines : out[k].kind = "standardized" /\ out[k].n > 0
    /\ \E k \in CountLines : out[k].kind = "set_coords" /\ out[k].n > 0

\* C7: the database is written (by the connection, or in the file) only when
\* the backup of this run has been made and holds the file's contents; a run
\* whose copy failed writes nothing.
C7_BackupBeforeWrite ==
    [][(txn' # txn \/ dbfile' # dbfile) => (Len(backups) = run /\ backups[run] = dbfile)]_vars

\* The copy failed, in a directory the run created.
C7_Witness ==
    /\ pc = "failed"
    /\ Len(backups) < run
    /\ backup_dir

\* C8: every run that drops and recreates a table or updates rows in bulk has
\* copied the database file under the backup directory before the first such
\* write: in standardize_data.main no step that changes the database happens
\* unless this run has made its copy.  (The end of the process, which only
\* discards uncommitted writes, is not such a step.)
C8_BackupFirst ==
    [][((txn' # txn \/ dbfile' # dbfile) /\ pc' \notin {"failed", "killed"})
        => Len(backups) = run]_vars

\* C9 (as claimed): when the run is stopped, the writes made so far are in the
\* database file.
C9_WritesRemain == [][pc' = "killed" => dbfile' = txn]_vars

\* C9 (amended): a run that stops before conn.commit() leaves the database
\* file as it was before the run, which is what the backup of the run holds.
C9_StopLeavesFile ==
    [][(pc' \in {"killed", "failed"} /\ pc # "summary")
        => (dbfile' = dbfile /\ (Len(backups) = run => dbfile' = backups[run]))]_vars

\* The run was stopped after it had merged or promoted a station.
C9_Witness ==
    /\ pc = "killed"
    /\ \E k \in DOMAIN out : out[k].kind \in {"merged", "merged_duplicate", "promoted", "renamed"}
    /\ dbfile = backups[run]

RangoonVariant(s) == HasPrefix(s, india_british_burma)

SitabaldiVariant(s) == HasPrefix(s, seetabuldee) \/ HasPrefix(s, sitabaldi)

Before(t, k) == backups[run].facts[t][k].station

Now(t, k) == dbfile.facts[t][k].station

\* C10 (as claimed): after a completed run every fact row whose station text
\* matched a variant condition holds the canonical name, and a stations row of
\* that name exists.
C10_FactsCanonicalAndStation ==
    pc = "done" => \A t \in FactTables : \A k \in DOMAIN dbfile.facts[t] :
        /\ RangoonVariant(Before(t, k))
              => (Now(t, k) = RANGOON /\ NamedIds(dbfile, RANGOON) # {})
        /\ SitabaldiVariant(Before(t, k))
              => (Now(t, k) = SITABALDI_NAGPUR /\ NamedIds(dbfile, SITABALDI_NAGPUR) # {})

NamesBefore == {backups[run].stations[i].name : i \in DOMAIN backups[run].stations}

\* C10 (amended): ... and a stations row of that name exists if before the run
\* the stations table held the canonical row or a row matching a variant
\* condition.
C10_FactsCanonical ==
    pc = "done" => \A t \in FactTables : \A k \in DOMAIN dbfile.facts[t] :
        /\ RangoonVariant(Before(t, k))
              => /\ Now(t, k) = RANGOON
                 /\ (\E n \in NamesBefore : n = RANGOON \/ RangoonVariant(n))
                        => NamedIds(dbfile, RANGOON) # {}
        /\ SitabaldiVariant(Before(t, k))
              => /\ Now(t, k) = SITABALDI_NAGPUR
                 /\ (\E n \in NamesBefore : SitabaldiVariant(n))
                        => NamedIds(dbfile, SITABALDI_NAGPUR) # {}

\* A fact row was rewritten and the stations table held a variant to promote.
C10_Witness ==
    /\ pc = "done"
    /\ run = 1
    /\ \E t \in FactTables : \E k \in DOMAIN dbfile.facts[t] :
          /\ Before(t, k) = SEETABULDEE
          /\ Now(t, k) = SITABALDI_NAGPUR
    /\ \E i \in DOMAIN backups[1].stations : backups[1].stations[i].name = SITABALDI
    /\ NamedIds(dbfile, SITABALDI_NAGPUR) # {}

(***************************************************************************)
(* Properties of the normalisers (specification SpecNorm).                 *)
(***************************************************************************)
ArchiveNormalizers ==
    {"standardize_class", "standardize_act", "standardize_country", "standardize_region"}

CategoricalNormalizers ==
    ArchiveNormalizers \cup {"analyze_standardize_class", "analyze_standardize_act"}

\* C11: each categorical normaliser is idempotent: for every input (null,
\* empty, whitespace-only, canonical label or unmapped text) applying it to
\* its own result gives that result again.
C11_Idempotent ==
    (Len(results) = 2 /\ normalizer \in CategoricalNormalizers)
        => results[2] = results[1]

\* C12: every normaliser, clean_text included, in the archive and in the
\* analysis variant, returns null when given null.
C12_NullGivesNull ==
    (Len(results) >= 1 /\ raw = NULL) => results[1] = NULL

\* clean_text and an archive normaliser have each been called with null.
C12_Witness ==
    /\ raw = NULL
    /\ Len(results) >= 1
    /\ normalizer \in {"clean_text", "standardize_region"}
    /\ results[1] = NULL

\* A rule of a normaliser as the specification lists it: the rule applies
\* when all tokens of one of its alternatives occur in the text.
Rule(alts, to) == [alts |-> alts, label |-> to]

Applies(rule, v) == \E a \in rule.alts : \A t \in a : Contains(v, t)

ClassRules ==
    <<Rule({{tok["first"]}, {tok["1st"]}}, label["First Class"]),
      Rule({{tok["second"]}, {tok["2nd"]}}, label["Second Class"]),
      Rule({{tok["third"]}, {tok["3rd"]}}, label["Third Class"]),
      Rule({{tok["military"]}}, label["Military"]),
      Rule({{tok["civil"]}}, label["Civil"])>>

ActRules ==
    <<Rule({{tok["xiv"], tok["1868"]}}, label["Act XIV of 1868"]),
      Rule({{tok["xxii"], tok["1864"]}}, label["Act XXII of 1864"]),
      Rule({{tok["iii"], tok["1880"]}}, label["Act III of 1880"]),
      Rule({{tok["xii"], tok["1864"]}}, label["Act XII of 1864"]),
      Rule({{tok["voluntary"]}}, label["Voluntary System"])>>

RegionRules ==
    <<Rule({{tok["madras"]}}, label["Madras Presidency"]),
      Rule({{tok["burma"]}}, label["Burma"]),
      Rule({{tok["punjab"]}}, label["Punjab"]),
      Rule({{tok["central provinces"]}}, label["Central Provinces"]),
      Rule({{tok["north-western provinces"]}, {tok["oudh"]}}, label["North-Western Provinces & Oudh"])>>

CountryRules ==
    <<Rule({{tok["british india"]}}, label["British India"]),
      Rule({{tok["burma"]}}, label["British Burma"])>>

RulesOf(name) ==
    CASE name \in {"standardize_class", "analyze_standardize_class"} -> ClassRules
      [] name \in {"standardize_act", "analyze_standardize_act"} -> ActRules
      [] name = "standardize_region" -> RegionRules
      [] name = "standardize_country" -> CountryRules

\* The rules that apply to the lowercased, trimmed text.
Applying(rules, x) == {i \in DOMAIN rules : Applies(rules[i], strip(lower(x)))}

\* The label of the first applying rule, else the title-cased trimmed text.
FirstRule(rules, x) ==
    LET hits == Applying(rules, x)
    IN  IF hits = {} THEN title(strip(x))
        ELSE rules[CHOOSE i \in hits : \A j \in hits : i <= j].label

\* C13: for every non-null string, the empty and the whitespace-only string
\* included, each categorical normaliser returns a label string, never null,
\* and an input matching no rule yields the title-cased trimmed input.
C13_StringGivesLabel ==
    (Len(results) >= 1 /\ raw # NULL /\ normalizer \in ArchiveNormalizers)
        => /\ results[1] \notin {NULL, AttributeError}
           /\ Applying(RulesOf(normalizer), raw) = {} => results[1] = title(strip(raw))

\* C14: standardize_class applies its rules in the order first/1st,
\* second/2nd, third/3rd, military, civil to the lowercased trimmed input and
\* returns the label of the first rule whose substring occurs ('1st military'
\* gives 'First Class'); an input matching no rule yields its title-cased form.
C14_ClassRuleOrder ==
    (Len(results) >= 1 /\ raw # NULL
        /\ normalizer \in {"standardize_class", "analyze_standardize_class"})
        => /\ results[1] = FirstRule(ClassRules, raw)
           /\ raw = <<"1", "s", "t", " ", "m", "i", "l", "i", "t", "a", "r", "y">>
                 => results[1] = label["First Class"]

\* The roman-numeral tokens of the pairs with the year each one needs.
ActPairs ==
    {<<tok["xiv"], tok["1868"]>>, <<tok["xxii"], tok["1864"]>>, <<tok["iii"], tok["1880"]>>, <<tok["xii"], tok["1864"]>>}

\* The act rules the called variant has: the analysis variant has the first
\* three pairs only.
OwnActRules ==
    IF normalizer = "standardize_act" THEN ActRules ELSE SubSeq(ActRules, 1, 3)

\* C15: standardize_act returns 'Act XIV of 1868' only if the lowercased
\* input contains both 'xiv' and '1868'; an input that contains the roman
\* numeral of a pair without that pair's year, and matches no other rule, is
\* returned title-cased ('xiv' gives 'Xiv').
C15_ActNeedsBoth ==
    (Len(results) >= 1 /\ raw # NULL
        /\ normalizer \in {"standardize_act", "analyze_standardize_act"})
        => LET v == strip(lower(raw))
           IN  /\ results[1] = label["Act XIV of 1868"]
                     => (Contains(v, tok["xiv"]) /\ Contains(v, tok["1868"]))
               /\ ((\E p \in ActPairs : Contains(v, p[1]) /\ ~Contains(v, p[2]))
                      /\ Applying(OwnActRules, raw) = {})
                     => results[1] = title(strip(raw))
               /\ raw = tok["xiv"] => results[1] = <<"X", "i", "v">>

\* 'xiv' without its year was passed and came back title-cased, in both
\* variants.
C15_Witness ==
    /\ raw \in {tok["xiv"], <<"x", "i", "v", " ">>}
    /\ Len(results) >= 1
    /\ normalizer \in {"standardize_act", "analyze_standardize_act"}
    /\ results[1] = <<"X", "i", "v">>

\* C16: standardize_act maps by the pairs (xiv,1868), (xxii,1864),
\* (iii,1880), (xii,1864) in that order, then 'voluntary' to 'Voluntary
\* System', else title-case passthrough: an input with 'xxii' and '1864' (and
\* not both 'xiv' and '1868') yields 'Act XXII of 1864', never 'Act XII of
\* 1864', and an input with 'voluntary' matching no pair yields 'Voluntary
\* System'.
C16_ActEnumeration ==
    (Len(results) >= 1 /\ raw # NULL
        /\ normalizer \in {"standardize_act", "analyze_standardize_act"})
        => LET v == strip(lower(raw))
           IN  /\ results[1] = FirstRule(ActRules, raw)
               /\ (Contains(v, tok["xxii"]) /\ Contains(v, tok["1864"])
                      /\ ~(Contains(v, tok["xiv"]) /\ Contains(v, tok["1868"])))
                     => results[1] = label["Act XXII of 1864"]
               /\ (Contains(v, tok["voluntary"]) /\ Applying(SubSeq(ActRules, 1, 4), raw) = {})
                     => results[1] = label["Voluntary System"]

\* C17: standardize_region applies substring rules in the order madras,
\* burma, punjab, central provinces, north-western provinces/oudh to the
\* lowercased trimmed input and returns the first match's label (both
\* 'madras' and 'burma' gives 'Madras Presidency'; 'N.W. Provinces and Oudh'
\* gives 'North-Western Provinces & Oudh'); no match yields the title-cased
\* form.
C17_RegionRuleOrder ==
    (Len(results) >= 1 /\ raw # NULL /\ normalizer = "standardize_region")
        => LET v == strip(lower(raw))
           IN  /\ results[1] = FirstRule(RegionRules, raw)
               /\ (Contains(v, tok["madras"]) /\ Contains(v, tok["burma"]))
                     => results[1] = label["Madras Presidency"]
               /\ raw = <<"N", ".", "W", ".", " ", "P", "r", "o", "v", "i", "n", "c", "e", "s", " ", "a", "n", "d", " ", "O", "u", "d", "h">>
                     => results[1] = label["North-Western Provinces & Oudh"]

\* C18: standardize_country returns 'British India' for every input whose
\* lowercased form contains 'british india' (also when it contains 'burma'),
\* otherwise 'British Burma' for every input containing 'burma', otherwise
\* the title-cased trimmed input.
C18_CountryRuleOrder ==
    (Len(results) >= 1 /\ raw # NULL /\ normalizer = "standardize_country")
        => LET v == lower(raw)
           IN  results[1] = IF Contains(v, tok["british india"]) THEN label["British India"]
                            ELSE IF Contains(v, tok["burma"]) THEN label["British Burma"]
                            ELSE title(strip(raw))

NotSpace(c) == ~IsSpace(c)

\* C19: clean_text returns, for every non-null string, the same words joined
\* by single spaces without leading or trailing whitespace (so it is
\* idempotent, and '  Madras   Presidency ' becomes 'Madras Presidency'), and
\* null for null.
C19_CleanText ==
    (Len(results) >= 1 /\ normalizer = "clean_text")
        => LET r == results[1]
           IN  /\ raw = NULL => r = NULL
               /\ raw # NULL =>
                    /\ r # NULL
                    /\ split(r) = split(raw)
                    /\ SelectSeq(r, NotSpace) = SelectSeq(raw, NotSpace)
                    /\ \A i \in DOMAIN r :
                          IsSpace(r[i]) => /\ r[i] = " "
                                           /\ 1 < i /\ i < Len(r)
                                           /\ ~IsSpace(r[i + 1])
               /\ Len(results) = 2 => results[2] = r
               /\ raw = <<" ", " ", "M", "a", "d", "r", "a", "s", " ", " ", " ", "P", "r", "e", "s", "i", "d", "e", "n", "c", "y", " ">>
                     => r = label["Madras Presidency"]

\* A text with a run of whitespace between two words and whitespace at an
\* end was cleaned, and cleaned again.
C19_Witness ==
    /\ normalizer = "clean_text"
    /\ Len(results) = 2
    /\ raw # NULL
    /\ Len(split(raw)) >= 2
    /\ Len(results[1]) < Len(raw) - 1
    /\ \E i \in 1..(Len(raw) - 1) : IsSpace(raw[i]) /\ IsSpace(raw[i + 1])

\* The stations rows of db that the conditions of set_coords call variants.
SeetabuldeeIds(db) ==
    {i \in DOMAIN db.stations : HasPrefix(db.stations[i].name, seetabuldee)}

SitabaldiIds(db) ==
    {i \in DOMAIN db.stations :
        HasPrefix(db.stations[i].name, sitabaldi) /\ db.stations[i].name # SITABALDI_NAGPUR}

\* No stations row had the canonical name and some row was a variant when the
\* run began.
OnlyVariantsBefore ==
    /\ Len(backups) = run
    /\ NamedIds(backups[run], SITABALDI_NAGPUR) = {}
    /\ SeetabuldeeIds(backups[run]) \cup SitabaldiIds(backups[run]) # {}

\* C20: when no stations row has the canonical name and a variant exists,
\* set_coords renames exactly one variant, one returned for the first
\* condition that has matches, to the canonical name, deletes every other
\* variant after repointing its reports to the promoted row, and sets the
\* promoted row's latitude and longitude to the given values.
C20_PromoteFirstVariant ==
    (SetCoordsOver /\ OnlyVariantsBefore) =>
        LET before == backups[run]
            first == IF SeetabuldeeIds(before) # {} THEN SeetabuldeeIds(before)
                     ELSE SitabaldiIds(before)
            variants == SeetabuldeeIds(before) \cup SitabaldiIds(before)
        IN  \E p \in first :
              /\ NamedIds(txn, SITABALDI_NAGPUR) = {p}
              /\ DOMAIN txn.stations \cap variants = {p}
              /\ {k \in DOMAIN out : out[k].kind = "promoted"}
                    = {k \in DOMAIN out : out[k].kind = "promoted" /\ out[k].id = p}
              /\ Cardinality({k \in DOMAIN out : out[k].kind = "promoted"}) = 1
              /\ txn.stations[p].latitude = new_lat
              /\ txn.stations[p].longitude = new_lon
              /\ \A r \in DOMAIN before.station_reports :
                    before.station_reports[r].station_id \in variants
                        => txn.station_reports[r].station_id = p

\* 'Seetabuldee' and 'Sitabaldi' were both there without the canonical row,
\* a report referred to the one that was merged, and set_coords is over.
C20_Witness ==
    /\ SetCoordsOver
    /\ OnlyVariantsBefore
    /\ \E i \in SeetabuldeeIds(backups[run]) : backups[run].stations[i].name = SEETABULDEE
    /\ \E i \in SitabaldiIds(backups[run]) :
          /\ backups[run].stations[i].name = SITABALDI
          /\ Referenced(backups[run], i)
    /\ Cardinality(NamedIds(txn, SITABALDI_NAGPUR)) = 1

(***************************************************************************)
(* Properties of standardize_data.main (specification SpecStd).            *)
(***************************************************************************)
StaffColumns ==
    {"staff_medical_officers", "staff_hospital_assistants", "staff_matron",
     "staff_coolies", "staff_peons", "staff_watermen"}

\* The value of column c in the i-th row that main() read.
ReadValue(i, c) == all_data[i][IndexOf(column_names, c)]

\* The step at which main() commits.
Committing == pc = "std_insert" /\ pc' = "std_verify"

\* Every row read is in the committed table once, standardised.
RowsPersisted ==
    /\ \A i \in DOMAIN all_data :
          \E k \in DOMAIN dbfile'.rows :
             LET new == dbfile'.rows[k]
             IN  /\ new.hid = ReadValue(i, "hid")
                 /\ \A j \in DOMAIN dbfile'.rows : dbfile'.rows[j].hid = new.hid => j = k
                 /\ \A c \in {"doc_id", "source_name", "source_type", "year", "station"} :
                       new[c] = ReadValue(i, c)
                 /\ new.act = standardize_act(ReadValue(i, "act"))
                 /\ new.class = standardize_class(ReadValue(i, "class"))
                 /\ new.country = standardize_country(ReadValue(i, "country"))
                 /\ new.region = standardize_region(ReadValue(i, "region"))
    /\ Len(dbfile'.rows) = Len(all_data)

\* C21: standardize_data.main persists every row it read: each row is there
\* once after the run, under its hid, with doc_id, source_name, source_type,
\* year and station unchanged and act, class, country, region normalised; and
\* the columns the migration removes are exactly the staff_* columns.
C21_RowsPersistedStaffDropped ==
    [][Committing =>
          /\ RowsPersisted
          /\ ColumnSet(column_names) \ ColumnSet(dbfile'.columns)
                = ColumnSet(column_names) \cap StaffColumns]_vars

\* The table that main() read is the table in the file.
SameAsRead(db) ==
    /\ "hospital_operations" \in db.tables
    /\ db.columns = column_names
    /\ Len(db.rows) = Len(all_data)
    /\ \A i \in DOMAIN all_data : FetchRow(column_names, db.rows[i]) = all_data[i]

\* C26: in standardize_data.main every step that can fail on the shape of the
\* old table runs before the table is dropped: when the table lacks one of the
\* ten kept columns the run aborts with the original table and all its rows
\* still in the database.
C26_AbortKeepsTable ==
    [][(pc = "std_indices" /\ pc' = "failed") => SameAsRead(dbfile')]_vars

\* C27: standardize_data.main is re-runnable: a second run on the table a
\* first completed run produced succeeds and leaves the schema and every row
\* value as the first run left them.
C27_SecondRunSame ==
    [][/\ (run' >= 2 => pc' # "failed")
       /\ (run >= 2 /\ Committing) => SameAsRead(dbfile')]_vars

\* C28: the standardize_class of the analysis script and the one of the
\* archive script return the same result for every input that is null or a
\* string, the empty string included.
C28_ClassVariantsAgree ==
    (Len(results) >= 1 /\ normalizer = "standardize_class")
        => results[1] = analyze_standardize_class(raw)

(***************************************************************************)
(* Further properties of update_standardizations (specification Spec).     *)
(***************************************************************************)
\* The reports of db that refer to one of the ids and come from document d.
ReportsAt(db, ids, d) ==
    {r \in DOMAIN db.station_reports :
        db.station_reports[r].station_id \in ids /\ db.station_reports[r].doc_id = d}

Docs == {"D1", "D2"}

\* C22: when a stations row has the canonical name before set_coords runs,
\* that row keeps its id and its name through the pass, the number of
\* station_reports rows does not change, and afterwards the reports at the
\* anchor are, document by document, as many as the reports that were at the
\* anchor or at a merged variant before.
C22_AnchorSurvives ==
    (Len(backups) = run /\ NamedIds(backups[run], SITABALDI_NAGPUR) # {}) =>
        LET before == backups[run]
            variants == SeetabuldeeIds(before) \cup SitabaldiIds(before)
        IN  \A a \in NamedIds(before, SITABALDI_NAGPUR) :
              /\ a \in DOMAIN txn.stations
              /\ txn.stations[a].name = SITABALDI_NAGPUR
              /\ DOMAIN txn.station_reports = DOMAIN before.station_reports
              /\ SetCoordsOver =>
                    \A d \in Docs :
                        Cardinality(ReportsAt(txn, {a}, d))
                            = Cardinality(ReportsAt(before, {a} \cup variants, d))

\* The anchor and a variant were there, each with a report, and the pass is
\* over.
C22_Witness ==
    /\ SetCoordsOver
    /\ Len(backups) = run
    /\ \E a \in NamedIds(backups[run], SITABALDI_NAGPUR) :
          /\ Referenced(backups[run], a)
          /\ \E v \in SeetabuldeeIds(backups[run]) \cup SitabaldiIds(backups[run]) :
                Referenced(backups[run], v)
          /\ Cardinality(ReportsAt(txn, {a}, "D1") \cup ReportsAt(txn, {a}, "D2")) = 2

\* C23: update_standardizations makes all its writes durable through the one
\* commit after step 4: the file changes at that commit only, and when a
\* statement before it fails (a fact table is missing, a rename violates the
\* UNIQUE constraint on stations.name) the run ends with the file equal to
\* its pre-run contents, the backup being the only lasting effect.
C23_OneCommit ==
    [][/\ dbfile' # dbfile => (pc = "commit" /\ pc' = "summary" /\ dbfile' = txn)
       /\ (pc' = "failed" /\ Len(backups') = run')
             => (dbfile' = backups'[run'] /\ txn' = dbfile')]_vars

\* The run failed after statements that had written: a rename before the
\* rename that violated UNIQUE, or a fact table updated before the missing one.
C23_Witness ==
    /\ pc = "failed"
    /\ Len(backups) = run
    /\ dbfile = backups[run]
    /\ \E k \in DOMAIN out : \/ out[k].kind = "renamed"
                             \/ out[k].kind = "rangoon" /\ out[k].n > 0

\* The rows of a fact table whose lowercased station starts with
\* 'india (british burma)'.
IndiaRows(db, t) ==
    {k \in DOMAIN db.facts[t] : HasPrefix(db.facts[t][k].station, india_british_burma)}

RangoonCounts == {k \in DOMAIN out : out[k].kind = "rangoon"}

\* C24: for each fact table the count the Rangoon pass prints is the number
\* of rows whose lowercased station started with 'india (british burma)'
\* before the pass (no row is counted by two of the three UPDATEs), and after
\* the three UPDATEs the table has no such row.
C24_RangoonCountExact ==
    Len(backups) = run =>
        \A k \in RangoonCounts :
            /\ out[k].n = Cardinality(IndiaRows(backups[run], out[k].table))
            /\ Alive => IndiaRows(txn, out[k].table) = {}

\* A row that both the first and the third UPDATE would match was counted.
C24_Witness ==
    /\ Len(backups) = run
    /\ Alive
    /\ \E k \in RangoonCounts :
          /\ out[k].n >= 1
          /\ \E j \in DOMAIN backups[run].facts[out[k].table] :
                backups[run].facts[out[k].table][j].station = INDIA_BB

\* The prefixes of step 4.
CoordPrefixes == {coords[k].prefix : k \in DOMAIN coords}

\* C25: step 4 changes only the latitude and longitude of stations rows
\* whose lowercased name starts with a listed prefix: no stations row is
\* created or deleted, no name, region, country or notes changes, and
\* station_reports and the fact tables stay as they were.
C25_CoordsOnly ==
    [][(pc = "coords" /\ pc' = "commit") =>
          /\ txn'.station_reports = txn.station_reports
          /\ txn'.facts = txn.facts
          /\ txn'.tables = txn.tables
          /\ DOMAIN txn'.stations = DOMAIN txn.stations
          /\ \A i \in DOMAIN txn.stations :
                LET old == txn.stations[i]
                    new == txn'.stations[i]
                IN  /\ new.name = old.name
                    /\ new.region = old.region
                    /\ new.country = old.country
                    /\ new.notes = old.notes
                    /\ (new.latitude # old.latitude \/ new.longitude # old.longitude)
                          => \E p \in CoordPrefixes : HasPrefix(old.name, p)]_vars

\* Step 4 has set the coordinates of 'Tonghoo' next to a row it left alone.
C25_Witness ==
    /\ pc = "commit"
    /\ \E i, j \in DOMAIN txn.stations :
          /\ txn.stations[i].name = TONGHOO
          /\ txn.stations[i].latitude # NULL
          /\ txn.stations[j].name = RANGOON
          /\ txn.stations[j].latitude = NULL

\* C29: after extract_data_from_excel has built the station reports,
\* station_reports holds at most one row per (doc_id, station_id) pair, also
\* when the pair occurs in more than one of women_data, troop_data and
\* hospital_operations, and every row refers to an existing stations row.
C29_ReportsUnique ==
    pc = "extracted" =>
        /\ \A r, q \in DOMAIN dbfile.station_reports :
              (dbfile.station_reports[r].doc_id = dbfile.station_reports[q].doc_id
                  /\ dbfile.station_reports[r].station_id = dbfile.station_reports[q].station_id)
                 => r = q
        /\ RefIntegrity(dbfile)

\* C30: cleanup_irrelevant_code.main saves the original app.R as
\* app.R.before_final_cleanup before it overwrites app.R: when app.R is
\* opened for writing the backup holds what app.R holds, and the backup is
\* there when the run has reported 'Cleanup complete'.
C30_BackupBeforeOverwrite ==
    [][/\ (pc = "cleanup_open" /\ pc' = "cleanup_write") =>
              /\ BEFORE_FINAL_CLEANUP \in DOMAIN files
              /\ files[BEFORE_FINAL_CLEANUP] = files[APP_R]
       /\ pc' = "cleaned" => BEFORE_FINAL_CLEANUP \in DOMAIN files']_vars

====
